---- MODULE Spec2Model ----
(***************************************************************************)
(* A model of the glitchlings Rust core (rust/zoo): the segment-indexed    *)
(* TextBuffer, the StaticCache / layout cache, and the pipeline that runs  *)
(* GlitchOperation steps.  Indices are 0-based as in the source; a TLA+    *)
(* sequence s holds the source's element i at s[i + 1].                    *)
(***************************************************************************)
EXTENDS Integers, Sequences, FiniteSets, TLC

VARIABLES
    \* ---- TextBuffer (text_buffer.rs) ----
    buf,        \* the TextBuffer: segments, spans, word_segment_indices, total_chars, total_bytes
    src,        \* the text the buffer was constructed from
    lastOp,     \* the last edit call made on the buffer
    lastRes,    \* its result: "Ok", "InvalidWordIndex", "InvalidCharRange" or "Panic"
    clean,      \* TRUE while every edit call so far has returned successfully
    nEdits,     \* number of edit calls made
    \* ---- StaticCache (cache.rs) and the layout cache (lib.rs) ----
    inner,      \* the HashMap behind the RwLock: key -> stored value or None
    readers,    \* threads holding a read guard
    writer,     \* the thread holding the write guard, or NoThread
    poisoned,   \* the RwLock's poison flag
    th,         \* per thread: where its current call stands, and the call's data
    returned,   \* <<key, value>> for every value a completed call has returned
    snap,       \* the map's contents when a writer last aborted
    nCalls,     \* number of calls started
    \* ---- planning, Pipeline and GlitchOp::apply (lib.rs, glitch_ops.rs) ----
    planned,    \* the last plan_glitchlings call: master seed, items, (index, seed) pairs
    pipeline,   \* the Pipeline compiled from the planned descriptors
    lastRun,    \* the last Pipeline.run call: text, result, output, per-step trace
    lastApply,  \* the last direct GlitchOp::apply call: operation, text, outcome
    lastSample, \* the last weighted_sample_without_replacement call and its outcome
    lastCall    \* the last call of a configuration or typo function, with its outcome

bufVars == <<buf, src, lastOp, lastRes, clean, nEdits>>

cacheVars == <<inner, readers, writer, poisoned, th, returned, snap, nCalls>>

pipeVars == <<planned, pipeline, lastRun, lastApply, lastSample, lastCall>>

vars == <<buf, src, lastOp, lastRes, clean, nEdits,
          inner, readers, writer, poisoned, th, returned, snap, nCalls,
          planned, pipeline, lastRun, lastApply, lastSample, lastCall>>

-----------------------------------------------------------------------------
(* Bounds of the buffer model *)

MaxLen == 3        \* longest text a buffer is constructed from
MaxEdits == 2      \* edit calls per behaviour

-----------------------------------------------------------------------------
(* Characters.  "X" stands for the redaction glyph U+2588, which is three  *)
(* bytes of UTF-8; every other character of the alphabet is one byte.      *)

Chars == {"a", ".", " ", "X"}

is_whitespace(c) == c = " "

len_utf8(c) == IF c = "X" THEN 3 ELSE 1

\* text.chars().all(char::is_whitespace)
all_whitespace(text) == \A i \in 1..Len(text) : is_whitespace(text[i])

\* text.chars().count()
chars_count(text) == Len(text)

RECURSIVE str_len(_)
\* text.len(): the length in bytes
str_len(text) ==
    IF text = <<>> THEN 0 ELSE len_utf8(Head(text)) + str_len(Tail(text))

\* The bytes of one character: byte k of c is <<c, k>>.
char_bytes(c) == [k \in 1..len_utf8(c) |-> <<c, k>>]

RECURSIVE as_bytes(_)
as_bytes(text) ==
    IF text = <<>> THEN <<>> ELSE char_bytes(Head(text)) \o as_bytes(Tail(text))

\* Whether byte offset off (0-based) of text is a character boundary.
RECURSIVE is_char_boundary(_, _)
is_char_boundary(text, off) ==
    IF off = 0 THEN TRUE
    ELSE IF text = <<>> THEN FALSE
    ELSE IF off < len_utf8(Head(text)) THEN FALSE
    ELSE is_char_boundary(Tail(text), off - len_utf8(Head(text)))

\* The number of characters that lie before a byte offset that is a boundary.
RECURSIVE chars_before(_, _)
chars_before(text, off) ==
    IF off = 0 \/ text = <<>> THEN 0
    ELSE 1 + chars_before(Tail(text), off - len_utf8(Head(text)))

Texts(n) == UNION {[1..k -> Chars] : k \in 0..n}

-----------------------------------------------------------------------------
(* resources::split_with_separators: the text cut at whitespace runs, the  *)
(* runs kept as tokens of their own, as re.split(r"(\s+)", text) does: the *)
(* tokens alternate word, separator, word, ..., and the first and the last *)
(* word token are empty when the text starts or ends with whitespace.      *)

RECURSIVE split_scan(_, _, _, _)
split_scan(text, toks, cur, inSep) ==
    IF text = <<>>
    THEN IF inSep THEN toks \o <<cur, <<>>>> ELSE Append(toks, cur)
    ELSE LET c == Head(text) IN
         IF is_whitespace(c) = inSep
         THEN split_scan(Tail(text), toks, Append(cur, c), inSep)
         ELSE split_scan(Tail(text), Append(toks, cur), <<c>>, ~inSep)

split_with_separators(text) == split_scan(text, <<>>, <<>>, FALSE)

-----------------------------------------------------------------------------
(* TextSegment *)

TextSegment_new(text, kind) == [kind |-> kind, text |-> text]

TextSegment_inferred(text) ==
    TextSegment_new(text, IF all_whitespace(text) THEN "Separator" ELSE "Word")

\* tokenise with the whitespace tokens dropped
TokMutTokenise(text) ==
    IF text = <<>> THEN <<>>
    ELSE LET toks == SelectSeq(split_with_separators(text),
                               LAMBDA t : t # <<>> /\ ~all_whitespace(t))
         IN  [i \in 1..Len(toks) |-> TextSegment_new(toks[i], "Word")]

tokenise(text) ==
    IF text = <<>> THEN <<>>
    ELSE LET toks == SelectSeq(split_with_separators(text), LAMBDA t : t # <<>>)
             segments == [i \in 1..Len(toks) |->
                            IF all_whitespace(toks[i])
                            THEN TextSegment_new(toks[i], "Separator")
                            ELSE TextSegment_new(toks[i], "Word")]
         IN  IF segments = <<>> THEN <<TextSegment_inferred(text)>> ELSE segments

-----------------------------------------------------------------------------
(* TextBuffer::reindex *)

\* reindex with the byte cursor advanced by the character count
RECURSIVE ReindexMutBytes(_, _, _, _, _, _)
ReindexMutBytes(segments, i, spans, words, char_cursor, byte_cursor) ==
    IF i > Len(segments)
    THEN [segments |-> segments, spans |-> spans, word_segment_indices |-> words,
          total_chars |-> char_cursor, total_bytes |-> byte_cursor]
    ELSE LET segment == segments[i]
             char_len == chars_count(segment.text)
             span == [segment_index |-> i - 1, kind |-> segment.kind,
                      char_range |-> <<char_cursor, char_cursor + char_len>>,
                      byte_range |-> <<byte_cursor, byte_cursor + char_len>>]
         IN  ReindexMutBytes(segments, i + 1, Append(spans, span),
                             IF segment.kind = "Word" THEN Append(words, i - 1) ELSE words,
                             char_cursor + char_len, byte_cursor + char_len)

\* reindex with the word index decided by content instead of kind
RECURSIVE ReindexMutWords(_, _, _, _, _, _)
ReindexMutWords(segments, i, spans, words, char_cursor, byte_cursor) ==
    IF i > Len(segments)
    THEN [segments |-> segments, spans |-> spans, word_segment_indices |-> words,
          total_chars |-> char_cursor, total_bytes |-> byte_cursor]
    ELSE LET segment == segments[i]
             char_len == chars_count(segment.text)
             byte_len == str_len(segment.text)
             span == [segment_index |-> i - 1, kind |-> segment.kind,
                      char_range |-> <<char_cursor, char_cursor + char_len>>,
                      byte_range |-> <<byte_cursor, byte_cursor + byte_len>>]
         IN  ReindexMutWords(segments, i + 1, Append(spans, span),
                             IF ~all_whitespace(segment.text)
                             THEN Append(words, i - 1) ELSE words,
                             char_cursor + char_len, byte_cursor + byte_len)

RECURSIVE reindex_loop(_, _, _, _, _, _)
reindex_loop(segments, i, spans, words, char_cursor, byte_cursor) ==
    IF i > Len(segments)
    THEN [segments |-> segments, spans |-> spans, word_segment_indices |-> words,
          total_chars |-> char_cursor, total_bytes |-> byte_cursor]
    ELSE LET segment == segments[i]
             char_len == chars_count(segment.text)
             byte_len == str_len(segment.text)
             span == [segment_index |-> i - 1, kind |-> segment.kind,
                      char_range |-> <<char_cursor, char_cursor + char_len>>,
                      byte_range |-> <<byte_cursor, byte_cursor + byte_len>>]
         IN  reindex_loop(segments, i + 1, Append(spans, span),
                          IF segment.kind = "Word" THEN Append(words, i - 1) ELSE words,
                          char_cursor + char_len, byte_cursor + byte_len)

reindex(segments) == reindex_loop(segments, 1, <<>>, <<>>, 0, 0)

\* TextBuffer::from_owned / from_str
from_owned(text) == reindex(tokenise(text))

from_str(text) == from_owned(text)

RECURSIVE concat_texts(_)
concat_texts(segments) ==
    IF segments = <<>> THEN <<>>
    ELSE Head(segments).text \o concat_texts(Tail(segments))

\* TextBuffer::to_string
to_string(b) == concat_texts(b.segments)

char_len(b) == b.total_chars

word_count(b) == Len(b.word_segment_indices)

\* TextBuffer::word_segment: Some(segment) is <<segment>>, None is <<>>.
word_segment(b, word_index) ==
    IF word_index < Len(b.word_segment_indices)
    THEN LET segment_index == b.word_segment_indices[word_index + 1] IN
         IF segment_index < Len(b.segments)
         THEN <<b.segments[segment_index + 1]>> ELSE <<>>
    ELSE <<>>

-----------------------------------------------------------------------------
(* Results of the edit calls: the buffer the call leaves and what it       *)
(* returned.                                                               *)

Ok(b) == [buf |-> b, res |-> "Ok"]

Err(b, e) == [buf |-> b, res |-> e]

with_segments(b, segments) == [b EXCEPT !.segments = segments]

set_text(segments, segment_index, text, kind) ==
    [segments EXCEPT ![segment_index + 1] = TextSegment_new(text, kind)]

remove_at(s, index) == SubSeq(s, 1, index) \o SubSeq(s, index + 2, Len(s))

insert_at(s, index, e) == SubSeq(s, 1, index) \o <<e>> \o SubSeq(s, index + 1, Len(s))

\* TextBuffer::replace_word
replace_word(b, word_index, replacement) ==
    IF word_index >= Len(b.word_segment_indices) THEN Err(b, "InvalidWordIndex")
    ELSE LET segment_index == b.word_segment_indices[word_index + 1] IN
         IF segment_index >= Len(b.segments) THEN Err(b, "InvalidWordIndex")
         ELSE Ok(reindex(set_text(b.segments, segment_index, replacement, "Word")))

\* TextBuffer::replace_words_bulk: the loop returns at the first bad index,
\* before the reindex that follows the loop.
RECURSIVE replace_words_loop(_, _, _, _)
replace_words_loop(b, replacements, i, applied_any) ==
    IF i > Len(replacements)
    THEN Ok(IF applied_any THEN reindex(b.segments) ELSE b)
    ELSE LET word_index == replacements[i][1]
             replacement == replacements[i][2]
         IN  IF word_index >= Len(b.word_segment_indices)
             THEN Err(b, "InvalidWordIndex")
             ELSE LET segment_index == b.word_segment_indices[word_index + 1] IN
                  IF segment_index >= Len(b.segments) THEN Err(b, "InvalidWordIndex")
                  ELSE replace_words_loop(
                           with_segments(b, set_text(b.segments, segment_index,
                                                     replacement, "Word")),
                           replacements, i + 1, TRUE)

replace_words_bulk(b, replacements) == replace_words_loop(b, replacements, 1, FALSE)

\* TextBuffer::delete_word
delete_word(b, word_index) ==
    IF word_index >= Len(b.word_segment_indices) THEN Err(b, "InvalidWordIndex")
    ELSE LET segment_index == b.word_segment_indices[word_index + 1] IN
         IF segment_index >= Len(b.segments) THEN Err(b, "InvalidWordIndex")
         ELSE Ok(reindex(remove_at(b.segments, segment_index)))

\* TextBuffer::insert_word_after; separator is <<sep>> for Some(sep), <<>> for None.
\* Vec::insert panics when the position is past the end of the vector.
insert_word_after(b, word_index, word, separator) ==
    IF word_index >= Len(b.word_segment_indices) THEN Err(b, "InvalidWordIndex")
    ELSE LET segment_index == b.word_segment_indices[word_index + 1]
             insert_at0 == segment_index + 1
             with_sep == separator # <<>> /\ separator[1] # <<>>
         IN  IF insert_at0 > Len(b.segments) THEN Err(b, "Panic")
             ELSE LET s1 == IF with_sep
                            THEN insert_at(b.segments, insert_at0,
                                           TextSegment_new(separator[1], "Separator"))
                            ELSE b.segments
                      at == IF with_sep THEN insert_at0 + 1 ELSE insert_at0
                  IN  Ok(reindex(insert_at(s1, at, TextSegment_new(word, "Word"))))

\* byte_index_for_char_offset
byte_index_for_char_offset(text, offset) ==
    IF offset = 0 THEN 0
    ELSE IF offset < chars_count(text) THEN str_len(SubSeq(text, 1, offset))
    ELSE str_len(text)

\* TextBuffer::char_to_byte_index: Some(n) is <<n>>, None is <<>>.
char_to_byte_index(b, char_index) ==
    IF char_index > b.total_chars THEN <<>>
    ELSE IF char_index = b.total_chars THEN <<b.total_bytes>>
    ELSE LET hits == {i \in 1..Len(b.spans) :
                         /\ b.spans[i].char_range[1] <= char_index
                         /\ char_index < b.spans[i].char_range[2]}
         IN  IF hits = {} THEN <<>>
             ELSE LET i == CHOOSE h \in hits : \A g \in hits : h <= g
                      span == b.spans[i]
                      relative == char_index - span.char_range[1]
                      segment == b.segments[span.segment_index + 1]
                  IN  <<span.byte_range[1]
                          + byte_index_for_char_offset(segment.text, relative)>>

\* String::replace_range(start_byte..end_byte, replacement) on text; <<>> when it
\* panics (a bound past the end, start after end, or a bound inside a character).
replace_range(text, start_byte, end_byte, replacement) ==
    IF \/ start_byte > end_byte
       \/ end_byte > str_len(text)
       \/ ~is_char_boundary(text, start_byte)
       \/ ~is_char_boundary(text, end_byte)
    THEN <<>>
    ELSE <<SubSeq(text, 1, chars_before(text, start_byte)) \o replacement
             \o SubSeq(text, chars_before(text, end_byte) + 1, Len(text))>>

\* TextBuffer::replace_char_range
replace_char_range(b, start, end, replacement) ==
    IF start > end \/ end > b.total_chars THEN Err(b, "InvalidCharRange")
    ELSE IF start = end /\ replacement = <<>> THEN Ok(b)
    ELSE LET text == to_string(b)
             start_byte == char_to_byte_index(b, start)
             end_byte == char_to_byte_index(b, end)
         IN  IF start_byte = <<>> \/ end_byte = <<>> THEN Err(b, "InvalidCharRange")
             ELSE LET replaced == replace_range(text, start_byte[1], end_byte[1],
                                                replacement)
                  IN  IF replaced = <<>> THEN Err(b, "Panic")
                      ELSE Ok(from_owned(replaced[1]))

starts_with_punct(text) == text # <<>> /\ text[1] \in {".", ",", ":", ";"}

\* TextBuffer::normalize, first pass
RECURSIVE normalize_loop(_, _, _, _)
normalize_loop(segments, i, normalized, pending_separator) ==
    IF i > Len(segments) THEN normalized
    ELSE LET segment == segments[i] IN
         IF segment.kind = "Separator"
         THEN normalize_loop(segments, i + 1, normalized, TRUE)
         ELSE normalize_loop(
                  segments, i + 1,
                  (IF pending_separator /\ ~starts_with_punct(segment.text)
                      /\ normalized # <<>>
                   THEN Append(normalized, TextSegment_new(<<" ">>, "Separator"))
                   ELSE normalized) \o <<segment>>,
                  FALSE)

RECURSIVE drop_leading_separators(_)
drop_leading_separators(s) ==
    IF s # <<>> /\ Head(s).kind = "Separator"
    THEN drop_leading_separators(Tail(s)) ELSE s

RECURSIVE drop_trailing_separators(_)
drop_trailing_separators(s) ==
    IF s # <<>> /\ s[Len(s)].kind = "Separator"
    THEN drop_trailing_separators(SubSeq(s, 1, Len(s) - 1)) ELSE s

\* TextBuffer::normalize
normalize(b) ==
    Ok(reindex(drop_trailing_separators(drop_leading_separators(
           normalize_loop(b.segments, 1, <<>>, FALSE)))))

\* TextBuffer::replace_segment: an index past the end returns without a change.
replace_segment(b, segment_index, new_text) ==
    IF segment_index >= Len(b.segments) THEN Ok(b)
    ELSE Ok(reindex(set_text(b.segments, segment_index, new_text,
                             b.segments[segment_index + 1].kind)))

\* TextBuffer::replace_segments_bulk
RECURSIVE replace_segments_loop(_, _, _, _)
replace_segments_loop(b, replacements, i, replaced) ==
    IF i > Len(replacements)
    THEN Ok(IF replaced THEN reindex(b.segments) ELSE b)
    ELSE LET segment_index == replacements[i][1]
             new_text == replacements[i][2]
         IN  IF segment_index < Len(b.segments)
             THEN replace_segments_loop(
                      with_segments(b, set_text(b.segments, segment_index, new_text,
                                                b.segments[segment_index + 1].kind)),
                      replacements, i + 1, TRUE)
             ELSE replace_segments_loop(b, replacements, i + 1, replaced)

replace_segments_bulk(b, replacements) ==
    replace_segments_loop(b, replacements, 1, FALSE)

\* The closure is_repeated_token of merge_repeated_char_words: a byte-wise test.
is_repeated_token(text, repeated_char) ==
    LET tb == as_bytes(text)
        rb == as_bytes(repeated_char)
    IN  /\ text # <<>>
        /\ Len(tb) % Len(rb) = 0
        /\ \A c \in 0..((Len(tb) \div Len(rb)) - 1) :
               SubSeq(tb, c * Len(rb) + 1, (c + 1) * Len(rb)) = rb

\* text.len() / repeated_char.len()
token_count_of(text, repeated_char) == str_len(text) \div str_len(repeated_char)

\* str::repeat
RECURSIVE repeat(_, _)
repeat(text, n) == IF n <= 0 THEN <<>> ELSE text \o repeat(text, n - 1)

\* The look-ahead loop with the first word's count kept for the whole run
RECURSIVE MergeLookaheadMutKeepCount(_, _, _, _)
MergeLookaheadMutKeepCount(segments, j, token_count, repeated_char) ==
    IF j < Len(segments)
       /\ segments[j + 1].kind = "Separator"
       /\ j + 1 < Len(segments)
       /\ segments[j + 2].kind = "Word"
       /\ is_repeated_token(segments[j + 2].text, repeated_char)
    THEN MergeLookaheadMutKeepCount(segments, j + 2,
                         token_count,
                         repeated_char)
    ELSE <<j, token_count>>

\* The look-ahead loop of merge_repeated_char_words: from segment j (0-based) it
\* returns <<j, token_count>> where the run ends.
RECURSIVE merge_lookahead(_, _, _, _)
merge_lookahead(segments, j, token_count, repeated_char) ==
    IF j < Len(segments)
       /\ segments[j + 1].kind = "Separator"
       /\ j + 1 < Len(segments)
       /\ segments[j + 2].kind = "Word"
       /\ is_repeated_token(segments[j + 2].text, repeated_char)
    THEN merge_lookahead(segments, j + 2,
                         token_count + token_count_of(segments[j + 2].text, repeated_char),
                         repeated_char)
    ELSE <<j, token_count>>

RECURSIVE merge_loop(_, _, _, _)
merge_loop(segments, i, merged, repeated_char) ==
    IF i >= Len(segments) THEN merged
    ELSE LET segment == segments[i + 1] IN
         IF segment.kind = "Word" /\ is_repeated_token(segment.text, repeated_char)
         THEN LET run == merge_lookahead(segments, i + 1,
                                         token_count_of(segment.text, repeated_char),
                                         repeated_char)
              IN  merge_loop(segments, run[1],
                             Append(merged, TextSegment_new(repeat(repeated_char, run[2]),
                                                            "Word")),
                             repeated_char)
         ELSE merge_loop(segments, i + 1, Append(merged, segment), repeated_char)

\* TextBuffer::merge_repeated_char_words
merge_repeated_char_words(b, repeated_char) ==
    IF b.segments = <<>> \/ repeated_char = <<>> THEN Ok(b)
    ELSE Ok(reindex(merge_loop(b.segments, 0, <<>>, repeated_char)))

-----------------------------------------------------------------------------
(* f64 values as the ops use them: NaN, or an exact ratio num/den, den > 0. *)
(* A rate of the configuration is a multiple of 1/RateDen.                  *)

RateDen == 2       \* rates are multiples of 1/RateDen

F64(num, den) == [nan |-> FALSE, num |-> num, den |-> den]

NaN == [nan |-> TRUE, num |-> 0, den |-> 1]

f_zero == F64(0, 1)

f_one == F64(1, 1)

f_lt(a, b) == ~a.nan /\ ~b.nan /\ a.num * b.den < b.num * a.den

f_le(a, b) == ~a.nan /\ ~b.nan /\ a.num * b.den <= b.num * a.den

f_ge(a, b) == f_le(b, a)

\* f64::max and f64::min return the other operand when one is NaN.
f_max(a, b) == IF a.nan THEN b ELSE IF b.nan THEN a ELSE IF f_lt(a, b) THEN b ELSE a

f_min(a, b) == IF a.nan THEN b ELSE IF b.nan THEN a ELSE IF f_lt(b, a) THEN b ELSE a

\* f64::clamp(0.0, 1.0): NaN stays NaN.
f_clamp01(a) ==
    IF a.nan THEN a ELSE IF f_lt(a, f_zero) THEN f_zero
    ELSE IF f_lt(f_one, a) THEN f_one ELSE a

f_mul(a, b) == IF a.nan \/ b.nan THEN NaN ELSE F64(a.num * b.num, a.den * b.den)

f_div(a, b) ==
    IF a.nan \/ b.nan \/ b.num = 0 THEN NaN
    ELSE IF b.num > 0 THEN F64(a.num * b.den, a.den * b.num)
    ELSE F64(0 - a.num * b.den, 0 - a.den * b.num)

f_add(a, b) ==
    IF a.nan \/ b.nan THEN NaN ELSE F64(a.num * b.den + b.num * a.den, a.den * b.den)

\* value.floor() as usize: the cast sends NaN and negative values to 0.
f_floor_usize(a) == IF a.nan \/ a.num <= 0 THEN 0 ELSE a.num \div a.den

RECURSIVE f_sum(_)
f_sum(ws) == IF ws = <<>> THEN f_zero ELSE f_add(Head(ws), f_sum(Tail(ws)))

-----------------------------------------------------------------------------
(* GlitchRng.  A generator is a seed, the number of draws made, and the     *)
(* number of the draw at which it reports an error (0: never, as the         *)
(* DeterministicRng, whose random() cannot fail).  A draw is u = val/RngDen. *)
(* The seed written in base RngDen is the generator's tape of TapeLen draws. *)

RngDen == 4        \* uniform draws are multiples of 1/RngDen
TapeLen == 3       \* draws after which a generator's tape repeats

RECURSIVE pow(_, _)
pow(x, n) == IF n = 0 THEN 1 ELSE x * pow(x, n - 1)

NSeeds == pow(RngDen, TapeLen)

rng_draw(seed, n) == (seed \div pow(RngDen, n % TapeLen)) % RngDen

\* DeterministicRng::new
DeterministicRng_new(seed) == [seed |-> seed, n |-> 0, fail_at |-> 0]

\* A caller's GlitchRng that replays a tape of draws
ScriptedRng(tape) == [tape |-> tape, n |-> 0, fail_at |-> 0]

\* GlitchRng::random, for the implementation behind the trait object
random(rng) ==
    [ok |-> rng.fail_at # rng.n + 1,
     u |-> IF "tape" \in DOMAIN rng THEN rng.tape[(rng.n % Len(rng.tape)) + 1]
           ELSE F64(rng_draw(rng.seed, rng.n), RngDen),
     rng |-> [rng EXCEPT !.n = @ + 1]]

\* GlitchRng::rand_index: an index in [0, upper) made from one draw, an error
\* when upper is 0.
rand_index(rng, upper) ==
    [ok |-> rng.fail_at # rng.n + 1 /\ upper > 0,
     index |-> f_floor_usize(f_mul(random(rng).u, F64(upper, 1))),
     rng |-> [rng EXCEPT !.n = @ + 1]]

-----------------------------------------------------------------------------
(* resources helpers used by the ops *)

is_word_char(c) == c = "a"

\* Character classes the helpers scan for.
in_class(c, class) == IF class = "whitespace" THEN is_whitespace(c) ELSE ~is_word_char(c)

RECURSIVE leading_run(_, _)
leading_run(text, class) ==
    IF text # <<>> /\ in_class(Head(text), class)
    THEN 1 + leading_run(Tail(text), class) ELSE 0

RECURSIVE trailing_run(_, _)
trailing_run(text, class) ==
    IF text # <<>> /\ in_class(text[Len(text)], class)
    THEN 1 + trailing_run(SubSeq(text, 1, Len(text) - 1), class) ELSE 0

\* str::trim
trim(text) ==
    LET lead == leading_run(text, "whitespace")
        rest == SubSeq(text, lead + 1, Len(text))
    IN  SubSeq(rest, 1, Len(rest) - trailing_run(rest, "whitespace"))

is_whitespace_only(text) == all_whitespace(text)

\* split_affixes: the leading run of non-word characters, the core, and the
\* trailing run of non-word characters.
split_affixes(text) ==
    LET lead == leading_run(text, "non-word")
        rest == SubSeq(text, lead + 1, Len(text))
        trail == trailing_run(rest, "non-word")
    IN  [prefix |-> SubSeq(text, 1, lead),
         core |-> SubSeq(rest, 1, Len(rest) - trail),
         suffix |-> SubSeq(rest, Len(rest) - trail + 1, Len(rest))]

\* affix_bounds: Some((core_start, core_end)) in bytes is <<start, end>>; None,
\* for a text without a core, is <<>>.
affix_bounds(text) ==
    LET parts == split_affixes(text) IN
    IF parts.core = <<>> THEN <<>>
    ELSE <<str_len(parts.prefix), str_len(parts.prefix) + str_len(parts.core)>>

\* core_length_for_weight
core_length_for_weight(core, original) ==
    LET l1 == IF core # <<>> THEN chars_count(core) ELSE chars_count(original)
        l2 == IF l1 = 0
              THEN (IF trim(original) = <<>> THEN chars_count(original)
                    ELSE chars_count(trim(original)))
              ELSE l1
    IN  IF l2 = 0 THEN 1 ELSE l2

inverse_length_weight(core, original) == F64(1, core_length_for_weight(core, original))

direct_length_weight(core, original) == F64(core_length_for_weight(core, original), 1)

-----------------------------------------------------------------------------
(* GlitchOp::apply for the word-level operations (glitch_ops.rs).  An apply *)
(* returns the buffer and the generator as it leaves them, its result ("Ok" *)
(* or the GlitchOpError variant), for RushmoreComboOp the modes it ran, and *)
(* for DeleteRandomWordsOp the delete_set it chose.                         *)

OpResult(b, rng, res) ==
    [buf |-> b, rng |-> rng, res |-> res, modes |-> <<>>, delete_set |-> {}]

\* From<TextBufferError> for GlitchOpError
buffer_result(r, rng) == OpResult(r.buf, rng, IF r.res = "Ok" THEN "Ok" ELSE "Buffer")

\* The inclusion probability without the shortcut for a rate of 1 or more
InclusionMutNoShortcut(effective_rate, weight, mean_weight) ==
    IF f_le(mean_weight, f_zero) THEN effective_rate
    ELSE f_min(f_mul(effective_rate, f_div(weight, mean_weight)), f_one)

\* The inclusion probability of a candidate in ReduplicateWordsOp and
\* DeleteRandomWordsOp.
inclusion_probability(effective_rate, weight, mean_weight) ==
    IF f_ge(effective_rate, f_one) THEN f_one
    ELSE IF f_le(mean_weight, f_zero) THEN effective_rate
    ELSE f_min(f_mul(effective_rate, f_div(weight, mean_weight)), f_one)

weights_of(candidates) == [i \in 1..Len(candidates) |-> candidates[i].weight]

mean_weight_of(candidates) ==
    f_div(f_sum(weights_of(candidates)), F64(Len(candidates), 1))

\* TextBuffer::reduplicate_words_bulk: each (index, first, second, separator)
\* puts first in place of the word and separator and second after it; the
\* indices are those of the buffer before the call.
RECURSIVE reduplicate_words_bulk(_, _)
reduplicate_words_bulk(b, reduplications) ==
    IF reduplications = <<>> THEN Ok(b)
    ELSE LET last == reduplications[Len(reduplications)]
             r1 == replace_word(b, last.index, last.first)
             r2 == insert_word_after(r1.buf, last.index, last.second, last.separator)
         IN  IF r1.res # "Ok" THEN r1
             ELSE IF r2.res # "Ok" THEN r2
             ELSE reduplicate_words_bulk(
                      r2.buf, SubSeq(reduplications, 1, Len(reduplications) - 1))

\* TextBuffer::rebuild_with_patterns: the buffer of a new text
rebuild_with_patterns(b, text) == from_owned(text)

\* ---- ReduplicateWordsOp ----

RECURSIVE reduplicate_candidates(_, _, _)
reduplicate_candidates(b, idx, unweighted) ==
    IF idx >= word_count(b) THEN <<>>
    ELSE LET segment == word_segment(b, idx)
             rest == reduplicate_candidates(b, idx + 1, unweighted)
         IN  IF segment = <<>> THEN rest
             ELSE IF segment[1].kind = "Separator" \/ trim(segment[1].text) = <<>>
             THEN rest
             ELSE LET original == segment[1].text
                      parts == split_affixes(original)
                  IN  <<[index |-> idx, prefix |-> parts.prefix, core |-> parts.core,
                         suffix |-> parts.suffix,
                         weight |-> IF unweighted THEN f_one
                                    ELSE inverse_length_weight(parts.core, original)]>>
                      \o rest

\* The draw loop of ReduplicateWordsOp::apply repeating the whole word
RECURSIVE ReduplicateDrawsMutWholeWord(_, _, _, _, _, _)
ReduplicateDrawsMutWholeWord(candidates, i, effective_rate, mean_weight, reduplications, rng) ==
    IF i > Len(candidates) THEN [ok |-> TRUE, picks |-> reduplications, rng |-> rng]
    ELSE LET candidate == candidates[i]
             probability == inclusion_probability(effective_rate, candidate.weight,
                                                  mean_weight)
             draw == random(rng)
         IN  IF ~draw.ok THEN [ok |-> FALSE, picks |-> reduplications, rng |-> draw.rng]
             ELSE ReduplicateDrawsMutWholeWord(
                      candidates, i + 1, effective_rate, mean_weight,
                      IF f_ge(draw.u, probability) THEN reduplications
                      ELSE Append(reduplications,
                                  [index |-> candidate.index,
                                   first |-> candidate.prefix \o candidate.core
                                             \o candidate.suffix,
                                   second |-> candidate.prefix \o candidate.core
                                              \o candidate.suffix,
                                   separator |-> <<<<" ">>>>]),
                      draw.rng)

RECURSIVE reduplicate_draws(_, _, _, _, _, _)
reduplicate_draws(candidates, i, effective_rate, mean_weight, reduplications, rng) ==
    IF i > Len(candidates) THEN [ok |-> TRUE, picks |-> reduplications, rng |-> rng]
    ELSE LET candidate == candidates[i]
             probability == inclusion_probability(effective_rate, candidate.weight,
                                                  mean_weight)
             draw == random(rng)
         IN  IF ~draw.ok THEN [ok |-> FALSE, picks |-> reduplications, rng |-> draw.rng]
             ELSE reduplicate_draws(
                      candidates, i + 1, effective_rate, mean_weight,
                      IF f_ge(draw.u, probability) THEN reduplications
                      ELSE Append(reduplications,
                                  [index |-> candidate.index,
                                   first |-> candidate.prefix \o candidate.core,
                                   second |-> candidate.core \o candidate.suffix,
                                   separator |-> <<<<" ">>>>]),
                      draw.rng)

\* self.rate.clamp(0.0, 1.0)
clamp_rate(rate) == f_clamp01(rate)

ReduplicateWordsOp_apply(op, b, rng) ==
    IF word_count(b) = 0 THEN OpResult(b, rng, "Ok")
    ELSE LET effective_rate == clamp_rate(op.rate)
             finish(drawn) ==
                 IF ~drawn.ok THEN OpResult(b, drawn.rng, "Rng")
                 ELSE buffer_result(reduplicate_words_bulk(b, drawn.picks), drawn.rng)
             select(candidates) ==
                 IF candidates = <<>> THEN OpResult(b, rng, "Ok")
                 ELSE IF f_le(effective_rate, f_zero) THEN OpResult(b, rng, "Ok")
                 ELSE finish(reduplicate_draws(candidates, 1, effective_rate,
                                               mean_weight_of(candidates), <<>>, rng))
         IN  select(reduplicate_candidates(b, 0, op.unweighted))

\* ---- DeleteRandomWordsOp ----

RECURSIVE delete_candidates(_, _, _)
delete_candidates(b, idx, unweighted) ==
    IF idx >= word_count(b) THEN <<>>
    ELSE LET segment == word_segment(b, idx)
             rest == delete_candidates(b, idx + 1, unweighted)
         IN  IF segment = <<>> THEN rest
             ELSE IF segment[1].text = <<>> \/ is_whitespace_only(segment[1].text)
             THEN rest
             ELSE LET original == segment[1].text
                      parts == split_affixes(original)
                  IN  <<[index |-> idx,
                         weight |-> IF unweighted THEN f_one
                                    ELSE inverse_length_weight(parts.core, original)]>>
                      \o rest

\* The draw loop of DeleteRandomWordsOp::apply without the break at the cap
RECURSIVE DeleteDrawsMutNoCap(_, _, _, _, _, _, _)
DeleteDrawsMutNoCap(candidates, i, effective_rate, mean_weight, allowed, delete_set, rng) ==
    IF i > Len(candidates)
    THEN [ok |-> TRUE, picks |-> delete_set, rng |-> rng]
    ELSE LET candidate == candidates[i]
             probability == inclusion_probability(effective_rate, candidate.weight,
                                                  mean_weight)
             draw == random(rng)
         IN  IF ~draw.ok THEN [ok |-> FALSE, picks |-> delete_set, rng |-> draw.rng]
             ELSE DeleteDrawsMutNoCap(candidates, i + 1, effective_rate, mean_weight, allowed,
                               IF f_ge(draw.u, probability) THEN delete_set
                               ELSE delete_set \cup {candidate.index},
                               draw.rng)

RECURSIVE delete_draws(_, _, _, _, _, _, _)
delete_draws(candidates, i, effective_rate, mean_weight, allowed, delete_set, rng) ==
    IF i > Len(candidates) \/ Cardinality(delete_set) >= allowed
    THEN [ok |-> TRUE, picks |-> delete_set, rng |-> rng]
    ELSE LET candidate == candidates[i]
             probability == inclusion_probability(effective_rate, candidate.weight,
                                                  mean_weight)
             draw == random(rng)
         IN  IF ~draw.ok THEN [ok |-> FALSE, picks |-> delete_set, rng |-> draw.rng]
             ELSE delete_draws(candidates, i + 1, effective_rate, mean_weight, allowed,
                               IF f_ge(draw.u, probability) THEN delete_set
                               ELSE delete_set \cup {candidate.index},
                               draw.rng)

\* segment_index -> word_index, the reverse map of segments_with_word_indices:
\* Some(word_index) is <<word_index>>, None is <<>>.
seg_to_word(b, seg_idx) ==
    LET hits == {w \in 1..Len(b.word_segment_indices) :
                     b.word_segment_indices[w] = seg_idx}
    IN  IF hits = {} THEN <<>> ELSE <<(CHOOSE w \in hits : \A v \in hits : v <= w) - 1>>

\* One emitted piece of the rebuild pass: a space first when one is due and the
\* piece does not start with sentence punctuation.
emit(result, needs_separator, piece) ==
    (IF needs_separator /\ ~starts_with_punct(piece) THEN Append(result, " ")
     ELSE result) \o piece

\* A rebuild pass that drops the deleted words' cores and copies every other
\* piece, separators included, as it stands
RECURSIVE DeleteRebuildMutVerbatim(_, _, _, _, _)
DeleteRebuildMutVerbatim(b, i, delete_set, result, needs_separator) ==
    IF i > Len(b.segments) THEN result
    ELSE LET segment == b.segments[i]
             word_idx == seg_to_word(b, i - 1)
             parts == split_affixes(segment.text)
         IN  DeleteRebuildMutVerbatim(
                 b, i + 1, delete_set,
                 result \o (IF segment.kind = "Word" /\ word_idx # <<>>
                               /\ word_idx[1] \in delete_set
                            THEN parts.prefix \o parts.suffix
                            ELSE segment.text),
                 needs_separator)

\* The single rebuild pass of DeleteRandomWordsOp over the segments.
RECURSIVE delete_rebuild(_, _, _, _, _)
delete_rebuild(b, i, delete_set, result, needs_separator) ==
    IF i > Len(b.segments) THEN result
    ELSE LET segment == b.segments[i]
             word_idx == seg_to_word(b, i - 1)
         IN  IF segment.kind = "Word"
             THEN IF word_idx # <<>> /\ word_idx[1] \in delete_set
                  THEN LET parts == split_affixes(segment.text)
                           combined == trim(parts.prefix) \o trim(parts.suffix)
                       IN  IF combined # <<>>
                           THEN delete_rebuild(b, i + 1, delete_set,
                                               emit(result, needs_separator, combined),
                                               TRUE)
                           ELSE delete_rebuild(b, i + 1, delete_set, result,
                                               needs_separator)
                  ELSE IF segment.text # <<>>
                       THEN delete_rebuild(b, i + 1, delete_set,
                                           emit(result, needs_separator, segment.text),
                                           TRUE)
                       ELSE delete_rebuild(b, i + 1, delete_set, result, needs_separator)
             ELSE \* a separator: one that holds a newline or a non-blank character
                  \* asks for a space; the alphabet has no newline
                  delete_rebuild(b, i + 1, delete_set, result,
                                 needs_separator \/ trim(segment.text) # <<>>)

DeleteRandomWordsOp_apply(op, b, rng) ==
    IF word_count(b) <= 1 THEN OpResult(b, rng, "Ok")
    ELSE LET effective_rate == clamp_rate(op.rate)
             finish(drawn) ==
                 IF ~drawn.ok
                 THEN [OpResult(b, drawn.rng, "Rng") EXCEPT !.delete_set = drawn.picks]
                 ELSE [OpResult(
                           rebuild_with_patterns(
                               b, trim(delete_rebuild(b, 1, drawn.picks, <<>>, FALSE))),
                           drawn.rng, "Ok") EXCEPT !.delete_set = drawn.picks]
             select(candidates) ==
                 LET allowed == f_floor_usize(f_mul(F64(Len(candidates), 1),
                                                    effective_rate))
                 IN  IF candidates = <<>> THEN OpResult(b, rng, "Ok")
                     ELSE IF f_le(effective_rate, f_zero) THEN OpResult(b, rng, "Ok")
                     ELSE IF allowed = 0 THEN OpResult(b, rng, "Ok")
                     ELSE finish(delete_draws(candidates, 1, effective_rate,
                                              mean_weight_of(candidates), allowed, {},
                                              rng))
         IN  select(delete_candidates(b, 1, op.unweighted))

\* ---- SwapAdjacentWordsOp ----

\* The loop of SwapAdjacentWordsOp::apply stepping one word at a time
RECURSIVE SwapLoopMutOverlap(_, _, _, _, _, _)
SwapLoopMutOverlap(b, total_words, clamped, index, replacements, rng) ==
    IF ~(index + 1 < total_words) THEN [ok |-> TRUE, picks |-> replacements, rng |-> rng]
    ELSE LET left_segment == word_segment(b, index)
             right_segment == word_segment(b, index + 1)
         IN  IF left_segment = <<>> \/ right_segment = <<>>
             THEN [ok |-> TRUE, picks |-> replacements, rng |-> rng]
             ELSE LET left == split_affixes(left_segment[1].text)
                      right == split_affixes(right_segment[1].text)
                      swapped == replacements \o
                                 <<<<index, left.prefix \o right.core \o left.suffix>>,
                                   <<index + 1,
                                     right.prefix \o left.core \o right.suffix>>>>
                      draw == random(rng)
                  IN  IF left.core = <<>> \/ right.core = <<>>
                      THEN SwapLoopMutOverlap(b, total_words, clamped, index + 1, replacements, rng)
                      ELSE IF f_ge(clamped, f_one)
                      THEN SwapLoopMutOverlap(b, total_words, clamped, index + 1, swapped, rng)
                      ELSE IF ~draw.ok
                      THEN [ok |-> FALSE, picks |-> replacements, rng |-> draw.rng]
                      ELSE SwapLoopMutOverlap(b, total_words, clamped, index + 1,
                                     IF f_lt(draw.u, clamped) THEN swapped
                                     ELSE replacements,
                                     draw.rng)

RECURSIVE swap_loop(_, _, _, _, _, _)
swap_loop(b, total_words, clamped, index, replacements, rng) ==
    IF ~(index + 1 < total_words) THEN [ok |-> TRUE, picks |-> replacements, rng |-> rng]
    ELSE LET left_segment == word_segment(b, index)
             right_segment == word_segment(b, index + 1)
         IN  IF left_segment = <<>> \/ right_segment = <<>>
             THEN [ok |-> TRUE, picks |-> replacements, rng |-> rng]
             ELSE LET left == split_affixes(left_segment[1].text)
                      right == split_affixes(right_segment[1].text)
                      swapped == replacements \o
                                 <<<<index, left.prefix \o right.core \o left.suffix>>,
                                   <<index + 1,
                                     right.prefix \o left.core \o right.suffix>>>>
                      draw == random(rng)
                  IN  IF left.core = <<>> \/ right.core = <<>>
                      THEN swap_loop(b, total_words, clamped, index + 2, replacements, rng)
                      ELSE IF f_ge(clamped, f_one)
                      THEN swap_loop(b, total_words, clamped, index + 2, swapped, rng)
                      ELSE IF ~draw.ok
                      THEN [ok |-> FALSE, picks |-> replacements, rng |-> draw.rng]
                      ELSE swap_loop(b, total_words, clamped, index + 2,
                                     IF f_lt(draw.u, clamped) THEN swapped
                                     ELSE replacements,
                                     draw.rng)

SwapAdjacentWordsOp_apply(op, b, rng) ==
    LET total_words == word_count(b)
        clamped == clamp_rate(op.rate)
    IN  IF total_words < 2 THEN OpResult(b, rng, "Ok")
        ELSE IF f_le(clamped, f_zero) THEN OpResult(b, rng, "Ok")
        ELSE LET finish(drawn) ==
                     IF ~drawn.ok THEN OpResult(b, drawn.rng, "Rng")
                     ELSE IF drawn.picks # <<>>
                     THEN buffer_result(replace_words_bulk(b, drawn.picks), drawn.rng)
                     ELSE OpResult(b, drawn.rng, "Ok")
             IN  finish(swap_loop(b, total_words, clamped, 0, <<>>, rng))

\* ---- RushmoreComboOp ----

\* The sub-operation a mode runs: Some(op) is <<op>>, None is <<>>.
mode_op(op, mode) ==
    IF mode = "Delete" THEN op.delete
    ELSE IF mode = "Duplicate" THEN op.duplicate
    ELSE op.swap

mode_apply(mode, sub, b, rng) ==
    IF mode = "Delete" THEN DeleteRandomWordsOp_apply(sub, b, rng)
    ELSE IF mode = "Duplicate" THEN ReduplicateWordsOp_apply(sub, b, rng)
    ELSE SwapAdjacentWordsOp_apply(sub, b, rng)

\* RushmoreComboOp::apply with a failed mode's error dropped and the loop going on
RECURSIVE RushmoreMutSwallow(_, _, _, _, _)
RushmoreMutSwallow(op, i, b, rng, ran) ==
    IF i > Len(op.modes) THEN [OpResult(b, rng, "Ok") EXCEPT !.modes = ran]
    ELSE LET mode == op.modes[i]
             sub == mode_op(op, mode)
         IN  IF sub = <<>> THEN RushmoreMutSwallow(op, i + 1, b, rng, ran)
             ELSE LET applied(r) ==
                          RushmoreMutSwallow(op, i + 1, r.buf, r.rng,
                                             Append(ran, [mode |-> mode, res |-> r.res]))
                  IN  applied(mode_apply(mode, sub[1], b, rng))

\* The loop of RushmoreComboOp::apply from mode i on; ran lists the modes whose
\* sub-operation has been applied, each with its result.
RECURSIVE rushmore_loop(_, _, _, _, _)
rushmore_loop(op, i, b, rng, ran) ==
    IF i > Len(op.modes) THEN [OpResult(b, rng, "Ok") EXCEPT !.modes = ran]
    ELSE LET mode == op.modes[i]
             sub == mode_op(op, mode)
         IN  IF sub = <<>> THEN rushmore_loop(op, i + 1, b, rng, ran)
             ELSE LET applied(r) ==
                          LET ran1 == Append(ran, [mode |-> mode, res |-> r.res])
                          IN  IF r.res # "Ok"
                              THEN [OpResult(r.buf, r.rng, r.res) EXCEPT !.modes = ran1]
                              ELSE rushmore_loop(op, i + 1, r.buf, r.rng, ran1)
                  IN  applied(mode_apply(mode, sub[1], b, rng))

RushmoreComboOp_apply(op, b, rng) == rushmore_loop(op, 1, b, rng, <<>>)

\* ---- weighted_sample_without_replacement and RedactWordsOp ----

\* log_key(a) > log_key(b) for keys ln(u)/w with u = d/RngDen and w > 0, by
\* cross-multiplication: u_a^(w_b) > u_b^(w_a); a draw of 0 has the key -inf.
key_gt(a, b) ==
    LET wa == a.w.num * b.w.den
        wb == b.w.num * a.w.den
    IN  pow(a.d, wb) * pow(RngDen, wa) > pow(b.d, wa) * pow(RngDen, wb)

RECURSIVE sample_keys(_, _, _, _)
sample_keys(items, i, keyed_items, rng) ==
    IF i > Len(items) THEN [ok |-> TRUE, keys |-> keyed_items, rng |-> rng]
    ELSE LET draw == random(rng) IN
         IF ~draw.ok THEN [ok |-> FALSE, keys |-> keyed_items, rng |-> draw.rng]
         ELSE sample_keys(items, i + 1,
                          Append(keyed_items, [index |-> items[i][1], d |-> draw.u.num,
                                               w |-> items[i][2]]),
                          draw.rng)

\* top_k with the pivot kept as well
TopKMutOneMore(keyed_items, k, tie) ==
    LET n == Len(keyed_items)
        beats(j, i) ==
            \/ key_gt(keyed_items[j], keyed_items[i])
            \/ /\ ~key_gt(keyed_items[i], keyed_items[j])
               /\ IF tie = "first" THEN j < i ELSE j > i
    IN  {keyed_items[i].index :
            i \in {i \in 1..n : Cardinality({j \in 1..n : beats(j, i)}) <= k}}

\* The k items select_nth_unstable_by leaves at the top.  Which of several equal
\* keys it keeps is not fixed by its contract: tie says whether the earlier or
\* the later of two equal keys ranks higher.
top_k(keyed_items, k, tie) ==
    LET n == Len(keyed_items)
        beats(j, i) ==
            \/ key_gt(keyed_items[j], keyed_items[i])
            \/ /\ ~key_gt(keyed_items[i], keyed_items[j])
               /\ IF tie = "first" THEN j < i ELSE j > i
    IN  {keyed_items[i].index :
            i \in {i \in 1..n : Cardinality({j \in 1..n : beats(j, i)}) < k}}

weighted_sample_without_replacement(rng, items, k, tie) ==
    IF k = 0 \/ items = <<>> THEN [res |-> "Ok", picks |-> {}, rng |-> rng]
    ELSE IF k > Len(items) THEN [res |-> "ExcessiveRedaction", picks |-> {}, rng |-> rng]
    ELSE LET rank(keyed) ==
                 IF ~keyed.ok THEN [res |-> "Rng", picks |-> {}, rng |-> keyed.rng]
                 ELSE [res |-> "Ok", picks |-> top_k(keyed.keys, k, tie),
                       rng |-> keyed.rng]
         IN  rank(sample_keys(items, 1, <<>>, rng))

RECURSIVE redact_candidates(_, _, _)
redact_candidates(b, idx, unweighted) ==
    IF idx >= word_count(b) THEN <<>>
    ELSE LET segment == word_segment(b, idx)
             rest == redact_candidates(b, idx + 1, unweighted)
         IN  IF segment = <<>> THEN rest
             ELSE LET text == segment[1].text
                      bounded(bounds) ==
                          IF bounds = <<>> THEN rest
                          ELSE IF bounds[1] = bounds[2] THEN rest
                          ELSE LET core == SubSeq(text, chars_before(text, bounds[1]) + 1,
                                                  chars_before(text, bounds[2]))
                                   repeat_count == chars_count(core)
                               IN  IF repeat_count = 0 THEN rest
                                   ELSE <<[index |-> idx, core_start |-> bounds[1],
                                           core_end |-> bounds[2],
                                           repeat |-> repeat_count,
                                           weight |-> IF unweighted THEN f_one
                                                      ELSE direct_length_weight(core,
                                                                                text)]>>
                                        \o rest
                  IN  bounded(affix_bounds(text))

\* The (word_index, new_text) pairs of the selected candidates, in word order.
redact_replacements(op, b, candidates, selections) ==
    LET chosen == SelectSeq(candidates,
                            LAMBDA c : \E p \in selections : candidates[p + 1] = c)
    IN  [i \in 1..Len(chosen) |->
            LET text == word_segment(b, chosen[i].index)[1].text
                prefix == SubSeq(text, 1, chars_before(text, chosen[i].core_start))
                suffix == SubSeq(text, chars_before(text, chosen[i].core_end) + 1,
                                 Len(text))
            IN  <<chosen[i].index,
                  prefix \o repeat(op.replacement_char, chosen[i].repeat) \o suffix>>]

\* RedactWordsOp::apply with a buffer without candidates taken as nothing to do
RedactMutEmptyOk(op, b, rng, tie) ==
    IF word_count(b) = 0 THEN OpResult(b, rng, "Ok")
    ELSE LET effective_rate == f_max(op.rate, f_zero)
             finish(replaced, rng1) ==
                 IF replaced.res # "Ok" THEN buffer_result(replaced, rng1)
                 ELSE IF op.merge_adjacent
                 THEN buffer_result(
                          merge_repeated_char_words(replaced.buf, op.replacement_char),
                          rng1)
                 ELSE buffer_result(replaced, rng1)
             replace(candidates, sampled) ==
                 IF sampled.res # "Ok" THEN OpResult(b, sampled.rng, sampled.res)
                 ELSE finish(replace_words_bulk(
                                 b, redact_replacements(op, b, candidates, sampled.picks)),
                             sampled.rng)
             select(candidates) ==
                 LET floored == f_floor_usize(f_mul(F64(Len(candidates), 1),
                                                    effective_rate))
                     num_to_redact == IF floored < 1 THEN 1 ELSE floored
                     weighted_indices == [i \in 1..Len(candidates) |->
                                             <<i - 1, candidates[i].weight>>]
                 IN  IF candidates = <<>> THEN OpResult(b, rng, "Ok")
                     ELSE IF num_to_redact > Len(candidates)
                     THEN OpResult(b, rng, "ExcessiveRedaction")
                     ELSE replace(candidates,
                                  weighted_sample_without_replacement(
                                      rng, weighted_indices, num_to_redact, tie))
         IN  select(redact_candidates(b, 0, op.unweighted))

RedactWordsOp_apply(op, b, rng, tie) ==
    IF word_count(b) = 0 THEN OpResult(b, rng, "NoRedactableWords")
    ELSE LET effective_rate == f_max(op.rate, f_zero)
             finish(replaced, rng1) ==
                 IF replaced.res # "Ok" THEN buffer_result(replaced, rng1)
                 ELSE IF op.merge_adjacent
                 THEN buffer_result(
                          merge_repeated_char_words(replaced.buf, op.replacement_char),
                          rng1)
                 ELSE buffer_result(replaced, rng1)
             replace(candidates, sampled) ==
                 IF sampled.res # "Ok" THEN OpResult(b, sampled.rng, sampled.res)
                 ELSE finish(replace_words_bulk(
                                 b, redact_replacements(op, b, candidates, sampled.picks)),
                             sampled.rng)
             select(candidates) ==
                 LET floored == f_floor_usize(f_mul(F64(Len(candidates), 1),
                                                    effective_rate))
                     num_to_redact == IF floored < 1 THEN 1 ELSE floored
                     weighted_indices == [i \in 1..Len(candidates) |->
                                             <<i - 1, candidates[i].weight>>]
                 IN  IF candidates = <<>> THEN OpResult(b, rng, "NoRedactableWords")
                     ELSE IF num_to_redact > Len(candidates)
                     THEN OpResult(b, rng, "ExcessiveRedaction")
                     ELSE replace(candidates,
                                  weighted_sample_without_replacement(
                                      rng, weighted_indices, num_to_redact, tie))
         IN  select(redact_candidates(b, 0, op.unweighted))

\* ---- GlitchOperation ----

\* GlitchOp for GlitchOperation: the dispatch on the variant
GlitchOperation_apply(op, b, rng, tie) ==
    IF op.type = "Reduplicate" THEN ReduplicateWordsOp_apply(op, b, rng)
    ELSE IF op.type = "Delete" THEN DeleteRandomWordsOp_apply(op, b, rng)
    ELSE IF op.type = "SwapAdjacent" THEN SwapAdjacentWordsOp_apply(op, b, rng)
    ELSE IF op.type = "RushmoreCombo" THEN RushmoreComboOp_apply(op, b, rng)
    ELSE RedactWordsOp_apply(op, b, rng, tie)

-----------------------------------------------------------------------------
(* Seed derivation, planning, Pipeline::compile and Pipeline::run.  The      *)
(* pipeline and rng modules are modelled from the specification (sections    *)
(* 4.1 and 4.5); the binding functions that call them are those of lib.rs.   *)

NMasters == 2      \* master seeds
MaxSteps == 2      \* longest descriptor list

Masters == 0..(NMasters - 1)

Names == {"reduple", "rushmore", "redactyl", "censor"}

name_code(name) ==
    IF name = "reduple" THEN 1 ELSE IF name = "rushmore" THEN 2
    ELSE IF name = "redactyl" THEN 3 ELSE 4

\* derive_seed: a function of the master seed and the step's name, scope and order
derive_seed(master_seed, name, scope, order) ==
    (master_seed * 29 + name_code(name) * 13 + scope * 7 + order * 3 + 5) % NSeeds

\* pipeline::plan_gaggle: one entry per input, in input order
plan_gaggle(inputs, master_seed) ==
    [i \in 1..Len(inputs) |->
        [index |-> inputs[i].index,
         seed |-> derive_seed(master_seed, inputs[i].name, inputs[i].scope,
                              inputs[i].order)]]

\* plan_glitchlings with the position in the list passed on as the order
PlanMutIndexAsOrder(glitchlings, master_seed) ==
    LET plan == plan_gaggle([i \in 1..Len(glitchlings) |->
                                [index |-> i - 1, name |-> glitchlings[i].name,
                                 scope |-> glitchlings[i].scope, order |-> i - 1]],
                            master_seed)
    IN  [i \in 1..Len(plan) |-> <<plan[i].index, plan[i].seed>>]

\* plan_glitchlings
plan_glitchlings(glitchlings, master_seed) ==
    LET plan == plan_gaggle([i \in 1..Len(glitchlings) |->
                                [index |-> i - 1, name |-> glitchlings[i].name,
                                 scope |-> glitchlings[i].scope,
                                 order |-> glitchlings[i].order]],
                            master_seed)
    IN  [i \in 1..Len(plan) |-> <<plan[i].index, plan[i].seed>>]

\* The operation each named step is configured with.
OperationOf(name) ==
    IF name = "reduple"
    THEN [type |-> "Reduplicate", rate |-> F64(1, RateDen), unweighted |-> FALSE]
    ELSE IF name = "rushmore"
    THEN [type |-> "RushmoreCombo", modes |-> <<"Delete", "Duplicate", "Swap">>,
          delete |-> <<[type |-> "Delete", rate |-> F64(1, 1), unweighted |-> TRUE]>>,
          duplicate |-> <<[type |-> "Reduplicate", rate |-> F64(1, RateDen),
                           unweighted |-> TRUE]>>,
          swap |-> <<[type |-> "SwapAdjacent", rate |-> F64(1, RateDen)]>>]
    ELSE IF name = "redactyl"
    THEN [type |-> "Redact", replacement_char |-> <<"X">>, rate |-> F64(1, RateDen),
          merge_adjacent |-> TRUE, unweighted |-> FALSE]
    ELSE [type |-> "Redact", replacement_char |-> <<"X">>, rate |-> F64(2 * RateDen, RateDen),
          merge_adjacent |-> FALSE, unweighted |-> TRUE]

\* build_glitch_operations: each descriptor keeps its name and its seed
build_glitch_operations(descriptors) ==
    [i \in 1..Len(descriptors) |->
        [name |-> descriptors[i].name, seed |-> descriptors[i].seed,
         operation |-> descriptors[i].operation]]

\* Whether a name matches one of the patterns; a pattern is a literal name.
matches_any(name, patterns) == name \in patterns

\* Pipeline::compile: the descriptors the filters include, in their order
Pipeline_compile(master_seed, operations, include_patterns, exclude_patterns) ==
    SelectSeq(operations,
              LAMBDA d : /\ include_patterns = {} \/ matches_any(d.name, include_patterns)
                         /\ ~matches_any(d.name, exclude_patterns))

\* build_pipeline_from_py
build_pipeline_from_py(descriptors, master_seed, include_only, exclude) ==
    Pipeline_compile(master_seed, build_glitch_operations(descriptors), include_only,
                     exclude)

\* The generator of a step with the previous step's generator carried on
StepRngMutShared(previous, seed) ==
    IF previous = <<>> THEN DeterministicRng_new(seed) ELSE previous[1]

\* The generator Pipeline::run gives a step: a fresh one from the step's seed
step_rng(previous, seed) == DeterministicRng_new(seed)

\* Pipeline::run from step i on: b is the shared buffer, previous the generator
\* the step before left (<<>> before the first step).
RECURSIVE run_loop(_, _, _, _, _, _)
run_loop(steps, i, b, previous, trace, tie) ==
    IF i > Len(steps)
    THEN [res |-> "Ok", out |-> <<to_string(b)>>, trace |-> trace]
    ELSE LET rng == step_rng(previous, steps[i].seed)
             applied(r) ==
                 LET entry == [name |-> steps[i].name, rng0 |-> rng,
                               draws |-> r.rng.n - rng.n, before |-> to_string(b),
                               after |-> to_string(r.buf), res |-> r.res,
                               modes |-> r.modes]
                 IN  IF r.res # "Ok"
                     THEN [res |-> r.res, out |-> <<>>, trace |-> Append(trace, entry)]
                     ELSE run_loop(steps, i + 1, r.buf, <<r.rng>>, Append(trace, entry),
                                   tie)
         IN  applied(GlitchOperation_apply(steps[i].operation, b, rng, tie))

\* Pipeline::run
Pipeline_run(steps, text, tie) == run_loop(steps, 1, from_str(text), <<>>, <<>>, tie)

\* Pipeline::run_py: the text, or the step's error as the caller's exception
run_py(steps, text, tie) == Pipeline_run(steps, text, tie)

\* The pipeline variables before any call.
NotPlanned == [made |-> FALSE, master_seed |-> 0, items |-> <<>>, plan |-> <<>>]

NotCompiled == [made |-> FALSE, steps |-> <<>>, include |-> {}, exclude |-> {}]

NotRun == [made |-> FALSE, text |-> <<>>, res |-> "Ok", out |-> <<>>, trace |-> <<>>]

NotApplied ==
    [made |-> FALSE, op |-> OperationOf("reduple"), text |-> <<>>, seed |-> 0,
     fail_at |-> 0, tie |-> "first", res |-> "Ok", out |-> <<>>, after |-> <<>>,
     draws |-> 0, modes |-> <<>>, delete_set |-> {}]

NoCall == [fn |-> "none"]

NotSampled ==
    [made |-> FALSE, items |-> <<>>, k |-> 0, fail_at |-> 0, res |-> "Ok", picks |-> {},
     draws |-> 0]

PipeIdle ==
    /\ planned = NotPlanned
    /\ pipeline = NotCompiled
    /\ lastRun = NotRun
    /\ lastApply = NotApplied
    /\ lastSample = NotSampled
    /\ lastCall = NoCall

-----------------------------------------------------------------------------
(* StaticCache<K, V> (cache.rs) and the layout cache of lib.rs.  The value  *)
(* a thread offers is the thread's own id, so two threads always offer      *)
(* different values, and a returned value names the thread whose Arc it is. *)

NThreads == 2      \* threads calling into the cache
NKeys == 2         \* distinct keys
MaxCalls == 3      \* calls started per behaviour

ThreadNames == <<"t1", "t2", "t3", "t4">>

Threads == {ThreadNames[i] : i \in 1..NThreads}

Keys == 1..NKeys

None == "None"

NoThread == "nobody"

\* recover_read with a panic on a poisoned lock in place of the recovery
RecoverReadMutUnwrap(is_poisoned) == IF is_poisoned THEN "Panic" ELSE "Guard"

\* StaticCache::recover_read: lock.read().unwrap_or_else(PoisonError::into_inner)
\* yields the guard when the lock is poisoned (into_inner) and when it is not.
recover_read(is_poisoned) == IF is_poisoned THEN "Guard" ELSE "Guard"

\* StaticCache::recover_write: lock.write().unwrap_or_else(PoisonError::into_inner)
recover_write(is_poisoned) == IF is_poisoned THEN "Guard" ELSE "Guard"

\* The part of get_or_insert that runs under the write guard, without the
\* second look-up.
InsertMutNoDoubleCheck(map, key, value) ==
    [map |-> [map EXCEPT ![key] = value], ret |-> value]

\* The part of StaticCache::get_or_insert that runs under the write guard: the
\* double-check, then the insert.
insert_under_guard(map, key, value) ==
    IF map[key] # None
    THEN [map |-> map, ret |-> map[key]]
    ELSE [map |-> [map EXCEPT ![key] = value], ret |-> value]

\* layout_vec_cache().read().expect("layout vec cache poisoned") and
\* layout_vec_cache().write().expect("layout vec cache poisoned during write")
expect_guard(is_poisoned) == IF is_poisoned THEN "Panic" ELSE "Guard"

\* guard.entry(key).or_insert_with(|| arc.clone()), then entry.clone()
entry_or_insert_with(map, key, value) ==
    IF map[key] # None
    THEN [map |-> map, ret |-> map[key]]
    ELSE [map |-> [map EXCEPT ![key] = value], ret |-> value]

IdleThread ==
    [pc |-> "idle", op |-> "none", key |-> 1, ret |-> None, seen |-> None,
     wrote |-> FALSE]

CacheIdle ==
    /\ inner = [k \in Keys |-> None]
    /\ readers = {}
    /\ writer = NoThread
    /\ poisoned = FALSE
    /\ th = [t \in Threads |-> IdleThread]
    /\ returned = {}
    /\ snap = [k \in Keys |-> None]
    /\ nCalls = 0

\* A thread starts a call; seen is what the map held for the key when a writer
\* last aborted before the call.
Start(t, op, k) ==
    /\ th[t].pc \in {"idle", "done"}
    /\ nCalls < MaxCalls
    /\ th' = [th EXCEPT ![t] = [pc |-> "read", op |-> op, key |-> k, ret |-> None,
                                 seen |-> snap[k], wrote |-> FALSE]]
    /\ nCalls' = nCalls + 1
    /\ UNCHANGED <<inner, readers, writer, poisoned, returned, snap>>

\* A thread is given the read lock; guard is what the call makes of the lock
\* result: "Guard", or "Panic" when it does not recover a poisoned lock.
TakeRead(t, guard) ==
    /\ th[t].pc = "read"
    /\ writer = NoThread
    /\ IF guard = "Guard"
       THEN /\ readers' = readers \cup {t}
            /\ th' = [th EXCEPT ![t].pc = "reading"]
       ELSE /\ readers' = readers
            /\ th' = [th EXCEPT ![t].pc = "failed"]
    /\ UNCHANGED <<inner, writer, poisoned, returned, snap, nCalls>>

\* guard.get(key).cloned() under the read guard, which is then dropped.  A get
\* returns what it found; the other calls return a hit and go on after a miss.
Lookup(t) ==
    /\ th[t].pc = "reading"
    /\ readers' = readers \ {t}
    /\ IF inner[th[t].key] # None
       THEN /\ th' = [th EXCEPT ![t].pc = "done", ![t].ret = inner[th[t].key]]
            /\ returned' = returned \cup {<<th[t].key, inner[th[t].key]>>}
       ELSE /\ th' = [th EXCEPT ![t].pc = IF th[t].op = "get" THEN "done" ELSE "write"]
            /\ returned' = returned
    /\ UNCHANGED <<inner, writer, poisoned, snap, nCalls>>

\* A thread is given the write lock; guard as for the read lock.
TakeWrite(t, guard) ==
    /\ th[t].pc = "write"
    /\ writer = NoThread
    /\ readers = {}
    /\ IF guard = "Guard"
       THEN /\ writer' = t
            /\ th' = [th EXCEPT ![t].pc = "writing", ![t].wrote = TRUE]
       ELSE /\ writer' = writer
            /\ th' = [th EXCEPT ![t].pc = "failed"]
    /\ UNCHANGED <<inner, readers, poisoned, returned, snap, nCalls>>

\* The insert under the write guard, the return, and the drop of the guard.
Insert(t, r) ==
    /\ th[t].pc = "writing"
    /\ writer = t
    /\ inner' = r.map
    /\ writer' = NoThread
    /\ th' = [th EXCEPT ![t].pc = "done", ![t].ret = r.ret]
    /\ returned' = returned \cup {<<th[t].key, r.ret>>}
    /\ UNCHANGED <<readers, poisoned, snap, nCalls>>

\* A thread panics while it holds the write guard, before or after its insert:
\* the guard is dropped during unwinding, which poisons the lock.
Abort(t, r) ==
    /\ th[t].pc = "writing"
    /\ writer = t
    /\ \E stored \in BOOLEAN :
           /\ inner' = IF stored THEN r.map ELSE inner
           /\ snap' = IF stored THEN r.map ELSE inner
    /\ writer' = NoThread
    /\ poisoned' = TRUE
    /\ th' = [th EXCEPT ![t].pc = "aborted"]
    /\ UNCHANGED <<readers, returned, nCalls>>

\* ---- StaticCache ----

GetStart == \E t \in Threads, k \in Keys : Start(t, "get", k) /\ UNCHANGED <<bufVars, pipeVars>>

GetOrInsertStart ==
    \E t \in Threads, k \in Keys : Start(t, "get_or_insert", k) /\ UNCHANGED <<bufVars, pipeVars>>

AcquireRead == \E t \in Threads : TakeRead(t, recover_read(poisoned)) /\ UNCHANGED <<bufVars, pipeVars>>

ReadLookup == \E t \in Threads : Lookup(t) /\ UNCHANGED <<bufVars, pipeVars>>

AcquireWrite == \E t \in Threads : TakeWrite(t, recover_write(poisoned)) /\ UNCHANGED <<bufVars, pipeVars>>

WriteInsert ==
    \E t \in Threads :
        Insert(t, insert_under_guard(inner, th[t].key, t)) /\ UNCHANGED <<bufVars, pipeVars>>

WriterAbort ==
    \E t \in Threads :
        Abort(t, insert_under_guard(inner, th[t].key, t)) /\ UNCHANGED <<bufVars, pipeVars>>

BufIdle ==
    /\ src = <<>>
    /\ buf = from_str(<<>>)
    /\ lastOp = "from_str"
    /\ lastRes = "Ok"
    /\ clean = TRUE
    /\ nEdits = 0

CacheInit == CacheIdle /\ BufIdle /\ PipeIdle

CacheNext ==
    \/ GetStart
    \/ GetOrInsertStart
    \/ AcquireRead
    \/ ReadLookup
    \/ AcquireWrite
    \/ WriteInsert
    \/ WriterAbort

SpecCache == CacheInit /\ [][CacheNext]_vars

\* ---- cached_layout_vec over layout_vec_cache() ----

LayoutStart ==
    \E t \in Threads, k \in Keys : Start(t, "cached_layout_vec", k) /\ UNCHANGED <<bufVars, pipeVars>>

LayoutAcquireRead == \E t \in Threads : TakeRead(t, expect_guard(poisoned)) /\ UNCHANGED <<bufVars, pipeVars>>

LayoutReadLookup == \E t \in Threads : Lookup(t) /\ UNCHANGED <<bufVars, pipeVars>>

LayoutAcquireWrite == \E t \in Threads : TakeWrite(t, expect_guard(poisoned)) /\ UNCHANGED <<bufVars, pipeVars>>

LayoutWriteInsert ==
    \E t \in Threads :
        Insert(t, entry_or_insert_with(inner, th[t].key, t)) /\ UNCHANGED <<bufVars, pipeVars>>

LayoutWriterAbort ==
    \E t \in Threads :
        Abort(t, entry_or_insert_with(inner, th[t].key, t)) /\ UNCHANGED <<bufVars, pipeVars>>

LayoutNext ==
    \/ LayoutStart
    \/ LayoutAcquireRead
    \/ LayoutReadLookup
    \/ LayoutAcquireWrite
    \/ LayoutWriteInsert
    \/ LayoutWriterAbort

SpecLayout == CacheInit /\ [][LayoutNext]_vars

\* ---- the planning, compiling and running calls as a state machine ----

\* The items a caller plans: a name with its scope and order hints.
Items == [name : Names, scope : {0}, order : 0..1]

ItemLists == UNION {[1..k -> Items] : k \in 1..MaxSteps}

PatternSets == {{}, {"redactyl"}, {"reduple", "rushmore"}}

PipeTexts ==
    {<<>>, <<" ">>, <<"a">>, <<"a", " ", "a", "a">>, <<".", "a", " ", "a", ".">>,
     <<"a", " ", "a", "a", " ", "a">>}

\* The descriptors a caller builds from its plan: each item with its planned seed.
descriptors_of(p) ==
    [i \in 1..Len(p.items) |->
        [name |-> p.items[i].name, seed |-> p.plan[i][2],
         operation |-> OperationOf(p.items[i].name)]]

\* A behaviour is one session: a plan, a compile from it and a run, or one
\* direct apply.
Plan ==
    \E master_seed \in Masters, items \in ItemLists :
        /\ ~planned.made /\ ~lastApply.made
        /\ planned' = [made |-> TRUE, master_seed |-> master_seed, items |-> items,
                       plan |-> plan_glitchlings(items, master_seed)]
        /\ pipeline' = NotCompiled
        /\ lastRun' = NotRun
        /\ lastApply' = NotApplied
        /\ UNCHANGED <<lastSample, lastCall, bufVars, cacheVars>>

Compile ==
    \E include \in PatternSets, exclude \in PatternSets :
        /\ planned.made /\ ~pipeline.made
        /\ pipeline' = [made |-> TRUE,
                        steps |-> build_pipeline_from_py(descriptors_of(planned),
                                                         planned.master_seed,
                                                         include, exclude),
                        include |-> include, exclude |-> exclude]
        /\ lastRun' = NotRun
        /\ UNCHANGED <<planned, lastApply, lastSample, lastCall, bufVars, cacheVars>>

Run ==
    \E text \in PipeTexts, tie \in {"first", "last"} :
        /\ pipeline.made /\ ~lastRun.made
        /\ lastRun' = [made |-> TRUE, text |-> text] @@ run_py(pipeline.steps, text, tie)
        /\ UNCHANGED <<planned, pipeline, lastApply, lastSample, lastCall, bufVars, cacheVars>>

\* What a caller sees of one apply: the result, the text on success (out),
\* the buffer's text whatever the result (after), the draws made, and the
\* operation's delete_set.
apply_outcome(op, text, seed, fail_at, tie, r) ==
    [made |-> TRUE, op |-> op, text |-> text, seed |-> seed, fail_at |-> fail_at,
     tie |-> tie, res |-> r.res,
     out |-> IF r.res = "Ok" THEN <<to_string(r.buf)>> ELSE <<>>,
     after |-> to_string(r.buf), draws |-> r.rng.n, modes |-> r.modes,
     delete_set |-> r.delete_set]

\* A direct GlitchOp::apply on a buffer of the text with a caller's GlitchRng,
\* whose random() may report an error at its fail_at-th draw.
Apply ==
    \E name \in Names, text \in PipeTexts, seed \in {0, 27, NSeeds - 1},
       fail_at \in 0..TapeLen, tie \in {"first", "last"} :
        LET op == OperationOf(name)
            rng == [DeterministicRng_new(seed) EXCEPT !.fail_at = fail_at]
        IN  \E r \in {GlitchOperation_apply(op, from_owned(text), rng, tie)} :
            /\ ~planned.made /\ ~lastApply.made
            /\ lastApply' = apply_outcome(op, text, seed, fail_at, tie, r)
            /\ planned' = NotPlanned
            /\ pipeline' = NotCompiled
            /\ lastRun' = NotRun
            /\ UNCHANGED <<lastSample, lastCall, bufVars, cacheVars>>

PipeInit == PipeIdle /\ BufIdle /\ CacheIdle

PipeNext ==
    \/ Plan
    \/ Compile
    \/ Run
    \/ Apply

SpecPipe == PipeInit /\ [][PipeNext]_vars

-----------------------------------------------------------------------------
(* The operations called directly: weighted_sample_without_replacement on   *)
(* small weighted lists, and each rate-driven GlitchOp on small texts at     *)
(* rates inside and outside [0, 1].                                          *)

MaxItems == 3      \* longest list handed to weighted_sample_without_replacement

SampleWeights == {F64(1, 1), F64(2, 1)}

\* The (index, weight) lists a caller builds: indices 0..n-1 in order.
SampleItems ==
    UNION {{[i \in 1..n |-> <<i - 1, w[i]>>] : w \in [1..n -> SampleWeights]} :
              n \in 0..MaxItems}

OpSeeds == 0..(NSeeds - 1)

\* A behaviour makes one call: a sample or an apply.
Sample ==
    /\ ~lastSample.made /\ ~lastApply.made
    /\ \E items \in SampleItems, k \in 0..(MaxItems + 1), seed \in 0..(NSeeds - 1),
          fail_at \in 0..TapeLen, tie \in {"first", "last"} :
        \E r \in {weighted_sample_without_replacement(
                      [DeterministicRng_new(seed) EXCEPT !.fail_at = fail_at],
                      items, k, tie)} :
            /\ lastSample' = [made |-> TRUE, items |-> items, k |-> k,
                              fail_at |-> fail_at, res |-> r.res, picks |-> r.picks,
                              draws |-> r.rng.n]
            /\ UNCHANGED <<planned, pipeline, lastRun, lastApply, lastCall, bufVars, cacheVars>>

\* Rates from -1/RateDen to 2 in steps of 1/RateDen, and NaN.
Rates == {F64(n, RateDen) : n \in (-1)..(2 * RateDen)} \cup {NaN}

OpConfigs ==
    {[type |-> "Reduplicate", rate |-> rate, unweighted |-> u] :
        rate \in Rates, u \in BOOLEAN}
    \cup {[type |-> "Delete", rate |-> rate, unweighted |-> u] :
             rate \in Rates, u \in BOOLEAN}
    \cup {[type |-> "SwapAdjacent", rate |-> rate] : rate \in Rates}
    \cup {[type |-> "Redact", replacement_char |-> <<"X">>, rate |-> rate,
           merge_adjacent |-> m, unweighted |-> u] :
             rate \in Rates, m \in BOOLEAN, u \in BOOLEAN}

OpTexts ==
    PipeTexts \cup {<<".">>, <<".", " ", ".">>, <<".", " ", "a">>,
                    <<" ", "a", " ", "a", " ">>,
                    <<"a", " ", "a", "a", " ", "a", " ", ".", "a">>}

\* Only RedactWordsOp sorts keys, so only there the order of equal keys counts.
OpTies(op) == IF op.type = "Redact" THEN {"first", "last"} ELSE {"first"}

OpApply ==
    /\ ~lastSample.made /\ ~lastApply.made
    /\ \E op \in OpConfigs, text \in OpTexts, seed \in OpSeeds, fail_at \in 0..TapeLen :
        \E tie \in OpTies(op) :
        \E r \in {GlitchOperation_apply(
                      op, from_owned(text),
                      [DeterministicRng_new(seed) EXCEPT !.fail_at = fail_at], tie)} :
            /\ lastApply' = apply_outcome(op, text, seed, fail_at, tie, r)
            /\ UNCHANGED <<planned, pipeline, lastRun, lastSample, lastCall, bufVars, cacheVars>>

\* The scenario of delete_random_words_cleans_up_spacing: "One two three four
\* five" in the model's alphabet, a letter for a letter, deleted from at rate
\* 0.75 with a generator that replays a tape of one draw per candidate.
ScenarioText ==
    <<"a", "a", "a", " ", "a", "a", "a", " ", "a", "a", "a", "a", "a", " ",
      "a", "a", "a", "a", " ", "a", "a", "a", "a">>

ScenarioTapeLen == 4

ScenarioDraws == {F64(0, 1), F64(1, 2), F64(3, 4), F64(31, 32)}

ScenarioOps ==
    {[type |-> "Delete", rate |-> F64(3, 4), unweighted |-> u] : u \in BOOLEAN}

DeleteScenario ==
    /\ ~lastSample.made /\ ~lastApply.made
    /\ \E op \in ScenarioOps, tape \in [1..ScenarioTapeLen -> ScenarioDraws] :
        \E r \in {DeleteRandomWordsOp_apply(op, from_owned(ScenarioText),
                                            ScriptedRng(tape))} :
            /\ lastApply' = apply_outcome(op, ScenarioText, 0, 0, "first", r)
            /\ UNCHANGED <<planned, pipeline, lastRun, lastSample, lastCall, bufVars, cacheVars>>

OpsInit == PipeIdle /\ BufIdle /\ CacheIdle

OpsNext ==
    \/ Sample
    \/ OpApply
    \/ DeleteScenario

SpecOps == OpsInit /\ [][OpsNext]_vars

-----------------------------------------------------------------------------
(* Operation descriptors (lib.rs): a descriptor's dict is extracted into a  *)
(* PyGlitchOperation and that is turned into the GlitchOperation.  Only the  *)
(* string-valued fields are modelled; a dict carries every required field.   *)
(* A result is "Ok" with the operation, or "Err" with the PyValueError's     *)
(* message as its fixed text and the value formatted into it.                *)

PyOk(operation) == [res |-> "Ok", operation |-> operation, message |-> "", value |-> ""]

PyErr(message, value) ==
    [res |-> "Err", operation |-> [type |-> "none"], message |-> message, value |-> value]

\* s.to_lowercase().replace('-', "_") on the strings of the model
lower_snake(s) ==
    IF s = "Wet-Ink" THEN "wet_ink"
    ELSE IF s = "UNIFORM" THEN "uniform"
    ELSE s

\* MotorWeighting::from_str: Some(mode) is <<mode>>, None is <<>>.
MotorWeighting_from_str(s) ==
    IF lower_snake(s) = "uniform" THEN <<"Uniform">>
    ELSE IF lower_snake(s) = "wet_ink" THEN <<"WetInk">>
    ELSE IF lower_snake(s) = "hastily_edited" THEN <<"HastilyEdited">>
    ELSE <<>>

\* HomophoneWeighting::try_from_str
HomophoneWeighting_try_from_str(value) == IF value = "flat" THEN <<"Flat">> ELSE <<>>

\* impl FromPyObject for PyGlitchOperation
extract_bound(dict) ==
    IF dict.type \in {"reduplicate", "delete", "swap_adjacent"}
    THEN PyOk([type |-> dict.type])
    ELSE IF dict.type = "rushmore_combo"
    THEN PyOk([type |-> "rushmore_combo", modes |-> dict.modes])
    ELSE IF dict.type = "typo"
    THEN LET parsed == IF dict.motor_weighting = <<>> THEN <<>>
                       ELSE MotorWeighting_from_str(dict.motor_weighting[1])
         IN  PyOk([type |-> "typo",
                   motor_weighting |-> IF parsed = <<>> THEN "Uniform" ELSE parsed[1]])
    ELSE IF dict.type = "wherewolf"
    THEN PyOk([type |-> "wherewolf",
               weighting |-> IF dict.weighting = <<>> THEN "flat" ELSE dict.weighting[1]])
    ELSE PyErr("unsupported operation type: ", dict.type)

\* PyGlitchOperation::into_glitch_operation
into_glitch_operation(operation) ==
    IF operation.type = "rushmore_combo"
    THEN LET known == {"delete", "duplicate", "swap"}
             bad == {i \in 1..Len(operation.modes) : operation.modes[i] \notin known}
         IN  IF bad = {} THEN PyOk(operation)
             ELSE PyErr("unsupported Rushmore mode: ",
                        operation.modes[CHOOSE i \in bad : \A j \in bad : i <= j])
    ELSE IF operation.type = "wherewolf"
    THEN IF HomophoneWeighting_try_from_str(operation.weighting) = <<>>
         THEN PyErr("unsupported weighting: ", operation.weighting)
         ELSE PyOk([operation EXCEPT !.weighting = "Flat"])
    ELSE PyOk(operation)

MaxModes == 2      \* longest modes list of a rushmore_combo descriptor

DictTypes == {"reduplicate", "delete", "swap_adjacent", "rushmore_combo", "typo",
              "wherewolf", "bogus"}

DictModes == UNION {[1..n -> {"delete", "swap", "bogus"}] : n \in 0..MaxModes}

\* An optional field: absent, or present with a string.
DictMotorWeightings ==
    {<<>>, <<"uniform">>, <<"Wet-Ink">>, <<"hastily_edited">>, <<"bogus">>}

DictWeightings == {<<>>, <<"flat">>, <<"bogus">>}

Dicts ==
    [type : DictTypes, modes : DictModes, motor_weighting : DictMotorWeightings,
     weighting : DictWeightings]

\* One descriptor built: extraction, then the conversion that
\* build_glitch_operations makes.
BuildOperation ==
    /\ lastCall = NoCall
    /\ \E dict \in Dicts :
        \E e \in {extract_bound(dict)} :
            lastCall' = [fn |-> "build_operation", dict |-> dict]
                        @@ (IF e.res = "Ok" THEN into_glitch_operation(e.operation) ELSE e)
    /\ UNCHANGED <<planned, pipeline, lastRun, lastApply, lastSample, bufVars, cacheVars>>

ConfigInit == PipeIdle /\ BufIdle /\ CacheIdle

ConfigNext == BuildOperation

SpecConfig == ConfigInit /\ [][ConfigNext]_vars

-----------------------------------------------------------------------------
(* TypoOp (glitch_ops.rs): the shift-slip pass, the search for an eligible  *)
(* character and the neighbor actions of one iteration.  A text is a        *)
(* sequence of the characters "a", "s", "j", "1" and " "; a shifted         *)
(* character is "A", "S", "J" or, through the shift map, "!".               *)

\* ShiftSlipConfig::shifted_for_char: the shift map's entry for the
\* lower-cased character, else the upper-cased character.
shifted_for_char(config, ch) ==
    LET key == IF ch = "A" THEN "a" ELSE IF ch = "S" THEN "s"
               ELSE IF ch = "J" THEN "j" ELSE ch
    IN  IF key \in DOMAIN config.shift_map THEN config.shift_map[key]
        ELSE IF ch = "a" THEN <<"A">>
        ELSE IF ch = "s" THEN <<"S">>
        ELSE IF ch = "j" THEN <<"J">>
        ELSE <<ch>>

\* The state of the loop of ShiftSlipConfig::apply before a character.  ok is
\* FALSE once a draw has failed; entry_draw and entered tell what the entry
\* test of the current character did; trace has one record per character
\* emitted.
slip_state(shift_held, min_hold, rng) ==
    [ok |-> TRUE, result |-> <<>>, shift_held |-> shift_held, activated |-> shift_held,
     guaranteed |-> IF shift_held THEN min_hold ELSE 0, rng |-> rng,
     entry_draw |-> FALSE, entered |-> FALSE, trace |-> <<>>]

\* slip_enter without the hold: an entry leaves the hold counter at 0.
SlipEnterMutNoHold(config, enter_rate, st) ==
    IF ~st.activated /\ f_lt(f_zero, enter_rate) /\ f_lt(enter_rate, f_one)
    THEN LET roll == random(st.rng)
         IN  IF ~roll.ok THEN [st EXCEPT !.ok = FALSE, !.rng = roll.rng]
             ELSE IF f_lt(roll.u, enter_rate)
             THEN [st EXCEPT !.rng = roll.rng, !.shift_held = TRUE, !.activated = TRUE,
                             !.guaranteed = 0, !.entry_draw = TRUE, !.entered = TRUE]
             ELSE [st EXCEPT !.rng = roll.rng, !.entry_draw = TRUE, !.entered = FALSE]
    ELSE [st EXCEPT !.entry_draw = FALSE, !.entered = FALSE]

\* The entry test of one character
slip_enter(config, enter_rate, st) ==
    IF ~st.activated /\ f_lt(f_zero, enter_rate) /\ f_lt(enter_rate, f_one)
    THEN LET roll == random(st.rng)
         IN  IF ~roll.ok THEN [st EXCEPT !.ok = FALSE, !.rng = roll.rng]
             ELSE IF f_lt(roll.u, enter_rate)
             THEN [st EXCEPT !.rng = roll.rng, !.shift_held = TRUE, !.activated = TRUE,
                             !.guaranteed = config.min_hold,
                             !.entry_draw = TRUE, !.entered = TRUE]
             ELSE [st EXCEPT !.rng = roll.rng, !.entry_draw = TRUE, !.entered = FALSE]
    ELSE [st EXCEPT !.entry_draw = FALSE, !.entered = FALSE]

\* The character emitted, and the hold counter or the exit test
slip_emit(config, exit_rate, ch, st) ==
    LET step(exit_draw, exited) ==
            [held |-> st.shift_held, entry_draw |-> st.entry_draw, entered |-> st.entered,
             guaranteed |-> st.guaranteed, exit_draw |-> exit_draw, exited |-> exited]
    IN  IF ~st.shift_held
        THEN [st EXCEPT !.result = Append(@, ch), !.trace = Append(@, step(FALSE, FALSE))]
        ELSE IF st.guaranteed > 0
        THEN [st EXCEPT !.result = @ \o shifted_for_char(config, ch),
                        !.guaranteed = @ - 1,
                        !.trace = Append(@, step(FALSE, FALSE))]
        ELSE IF f_ge(exit_rate, f_one)
        THEN [st EXCEPT !.result = @ \o shifted_for_char(config, ch),
                        !.shift_held = FALSE,
                        !.trace = Append(@, step(FALSE, TRUE))]
        ELSE IF f_lt(f_zero, exit_rate)
        THEN LET roll == random(st.rng)
             IN  IF ~roll.ok THEN [st EXCEPT !.ok = FALSE, !.rng = roll.rng]
                 ELSE [st EXCEPT !.result = @ \o shifted_for_char(config, ch),
                                 !.rng = roll.rng,
                                 !.shift_held = ~f_lt(roll.u, exit_rate),
                                 !.trace = Append(@, step(TRUE, f_lt(roll.u, exit_rate)))]
        ELSE [st EXCEPT !.result = @ \o shifted_for_char(config, ch),
                        !.trace = Append(@, step(FALSE, FALSE))]

\* for ch in text.chars()
RECURSIVE shift_slip_loop(_, _, _, _, _, _)
shift_slip_loop(config, enter_rate, exit_rate, text, i, st) ==
    IF i > Len(text)
    THEN [res |-> "Ok", out |-> st.result, rng |-> st.rng, trace |-> st.trace]
    ELSE LET entry == slip_enter(config, enter_rate, st)
             emitted(e) == IF e.ok THEN slip_emit(config, exit_rate, text[i], e) ELSE e
             next(e) == IF e.ok
                        THEN shift_slip_loop(config, enter_rate, exit_rate, text, i + 1, e)
                        ELSE [res |-> "Rng", out |-> <<>>, rng |-> e.rng, trace |-> e.trace]
         IN  next(emitted(entry))

\* ShiftSlipConfig::apply
ShiftSlipConfig_apply(config, text, rng) ==
    LET enter_rate == f_max(config.enter_rate, f_zero)
        exit_rate == f_max(config.exit_rate, f_zero)
    IN  IF f_le(enter_rate, f_zero) \/ text = <<>>
        THEN [res |-> "Ok", out |-> text, rng |-> rng, trace |-> <<>>]
        ELSE shift_slip_loop(config, enter_rate, exit_rate, text, 1,
                             slip_state(f_ge(enter_rate, f_one), config.min_hold, rng))

EligibleTries == 16   \* max_tries of the search in TypoOp::apply

\* TypoOp::is_word_char: alphanumeric or '_'
TypoOp_is_word_char(c) == c \in {"a", "s", "j", "1", "A", "S", "J"}

\* TypoOp::eligible_idx, idx counted from 0
eligible_idx(chars, idx) ==
    /\ ~(idx = 0 \/ idx + 1 >= Len(chars))
    /\ TypoOp_is_word_char(chars[idx + 1])
    /\ TypoOp_is_word_char(chars[idx]) /\ TypoOp_is_word_char(chars[idx + 2])

\* for _ in 0..max_tries: "Some" with the index probed, "Miss" when the tries
\* are used up, "Rng" when a draw failed.
RECURSIVE probe_loop(_, _, _)
probe_loop(rng, chars, tries) ==
    IF tries = 0 THEN [res |-> "Miss", idx |-> 0, rng |-> rng]
    ELSE LET d == rand_index(rng, Len(chars))
         IN  IF ~d.ok THEN [res |-> "Rng", idx |-> 0, rng |-> d.rng]
             ELSE IF eligible_idx(chars, d.index)
             THEN [res |-> "Some", idx |-> d.index, rng |-> d.rng]
             ELSE probe_loop(d.rng, chars, tries - 1)

\* scan_loop that stops at the end of the sequence instead of wrapping
RECURSIVE ScanLoopMutNoWrap(_, _, _)
ScanLoopMutNoWrap(chars, i, start) ==
    IF i = start \/ i = 0 THEN <<>>
    ELSE IF eligible_idx(chars, i) THEN <<i>>
    ELSE ScanLoopMutNoWrap(chars, (i + 1) % Len(chars), start)

\* while i != start: Some(i) is <<i>>, None is <<>>.
RECURSIVE scan_loop(_, _, _)
scan_loop(chars, i, start) ==
    IF i = start THEN <<>>
    ELSE IF eligible_idx(chars, i) THEN <<i>>
    ELSE scan_loop(chars, (i + 1) % Len(chars), start)

\* TypoOp::draw_eligible_index
draw_eligible_index(rng, chars, max_tries) ==
    IF Len(chars) = 0 THEN [res |-> "Ok", value |-> <<>>, rng |-> rng]
    ELSE LET finish(probe) ==
                 IF probe.res = "Rng" THEN [res |-> "Rng", value |-> <<>>, rng |-> probe.rng]
                 ELSE IF probe.res = "Some"
                 THEN [res |-> "Ok", value |-> <<probe.idx>>, rng |-> probe.rng]
                 ELSE LET d == rand_index(probe.rng, Len(chars))
                      IN  IF ~d.ok THEN [res |-> "Rng", value |-> <<>>, rng |-> d.rng]
                          ELSE IF eligible_idx(chars, d.index)
                          THEN [res |-> "Ok", value |-> <<d.index>>, rng |-> d.rng]
                          ELSE [res |-> "Ok",
                                value |-> scan_loop(chars, (d.index + 1) % Len(chars),
                                                    d.index),
                                rng |-> d.rng]
         IN  finish(probe_loop(rng, chars, max_tries))

\* TypoOp::neighbors_for_char: Some(list) is <<list>>, None is <<>>.
neighbors_for_char(op, ch) ==
    LET key == IF ch = "A" THEN "a" ELSE IF ch = "S" THEN "s"
               ELSE IF ch = "J" THEN "j" ELSE ch
    IN  IF key \in DOMAIN op.layout THEN <<op.layout[key]>> ELSE <<>>

\* finger_for_char: Some((hand, finger)) is <<hand, finger>>, None is <<>>.
finger_for_char(ch) ==
    IF ch \in {"a", "A", "1", "!"} THEN <<0, 0>>
    ELSE IF ch \in {"s", "S"} THEN <<0, 1>>
    ELSE IF ch \in {"j", "J"} THEN <<1, 3>>
    ELSE IF ch = " " THEN <<2, 4>>
    ELSE <<>>

classify_transition(prev_char, curr_char) ==
    LET prev == finger_for_char(prev_char)
        curr == finger_for_char(curr_char)
    IN  IF prev = <<>> \/ curr = <<>> THEN "Unknown"
        ELSE IF prev[1] = 2 \/ curr[1] = 2 THEN "Space"
        ELSE IF prev[1] # curr[1] THEN "CrossHand"
        ELSE IF prev[2] = curr[2] THEN "SameFinger"
        ELSE "SameHand"

\* MotorWeighting::weight_for_transition
weight_for_transition(motor_weighting, transition) ==
    IF motor_weighting = "WetInk" /\ transition = "SameFinger" THEN F64(858, 1000)
    ELSE IF motor_weighting = "WetInk" /\ transition = "SameHand" THEN F64(965, 1000)
    ELSE IF motor_weighting = "HastilyEdited" /\ transition = "SameFinger"
    THEN F64(3031, 1000)
    ELSE IF motor_weighting = "HastilyEdited" /\ transition = "SameHand"
    THEN F64(1101, 1000)
    ELSE f_one

\* TypoOp::select_weighted_neighbor; choice is counted from 0.
select_weighted_neighbor(op, prev_char, neighbors, rng) ==
    LET uniform == rand_index(rng, Len(neighbors))
        weights == [i \in 1..Len(neighbors) |->
                       weight_for_transition(op.motor_weighting,
                           classify_transition(prev_char,
                               IF neighbors[i] = <<>> THEN " " ELSE neighbors[i][1]))]
        d == random(rng)
        reached == {i \in 1..Len(neighbors) :
                       f_ge(f_sum(SubSeq(weights, 1, i)), f_mul(d.u, f_sum(weights)))}
    IN  IF op.motor_weighting = "Uniform" \/ f_le(f_sum(weights), f_zero)
        THEN [ok |-> uniform.ok, choice |-> uniform.index, rng |-> uniform.rng]
        ELSE [ok |-> d.ok,
              choice |-> IF reached = {} THEN Len(neighbors) - 1
                         ELSE (CHOOSE i \in reached : \A j \in reached : i <= j) - 1,
              rng |-> d.rng]

\* chars.splice(from..to, scratch), positions counted from 0
splice(chars, from, to, scratch) ==
    SubSeq(chars, 1, from) \o scratch \o SubSeq(chars, to + 1, Len(chars))

\* TypoAction::InsertNeighbor at an eligible idx
insert_neighbor(op, chars, idx, rng) ==
    LET found == neighbors_for_char(op, chars[idx + 1])
        sel == select_weighted_neighbor(op, chars[idx], found[1], rng)
        d == rand_index(rng, 1)
    IN  IF found # <<>> /\ found[1] # <<>>
        THEN IF ~sel.ok THEN [res |-> "Rng", chars |-> chars, rng |-> sel.rng]
             ELSE [res |-> "Ok", chars |-> splice(chars, idx, idx, found[1][sel.choice + 1]),
                   rng |-> sel.rng]
        ELSE IF ~d.ok THEN [res |-> "Rng", chars |-> chars, rng |-> d.rng]
             ELSE [res |-> "Ok", chars |-> splice(chars, idx, idx, <<chars[idx + 1]>>),
                   rng |-> d.rng]

\* TypoAction::ReplaceNeighbor at an eligible idx
replace_neighbor(op, chars, idx, rng) ==
    LET found == neighbors_for_char(op, chars[idx + 1])
        sel == select_weighted_neighbor(op, chars[idx], found[1], rng)
        d == rand_index(rng, 1)
    IN  IF found = <<>> THEN [res |-> "Ok", chars |-> chars, rng |-> rng]
        ELSE IF found[1] # <<>>
        THEN IF ~sel.ok THEN [res |-> "Rng", chars |-> chars, rng |-> sel.rng]
             ELSE [res |-> "Ok",
                   chars |-> IF found[1][sel.choice + 1] = <<>> THEN chars
                             ELSE splice(chars, idx, idx + 1, found[1][sel.choice + 1]),
                   rng |-> sel.rng]
        ELSE IF ~d.ok THEN [res |-> "Rng", chars |-> chars, rng |-> d.rng]
             ELSE [res |-> "Ok", chars |-> chars, rng |-> d.rng]

\* One iteration of TypoOp::apply whose action is a neighbor action, from the
\* search for an eligible index on.  found_draws is the number of draws made
\* when the search has returned.
neighbor_iteration(op, action, chars, rng) ==
    LET found == draw_eligible_index(rng, chars, EligibleTries)
        acted(r) == [res |-> r.res, found |-> found.value, found_draws |-> found.rng.n,
                     chars |-> r.chars, rng |-> r.rng]
    IN  IF found.res = "Rng" \/ found.value = <<>>
        THEN acted([res |-> found.res, chars |-> chars, rng |-> found.rng])
        ELSE IF action = "InsertNeighbor"
        THEN acted(insert_neighbor(op, chars, found.value[1], found.rng))
        ELSE acted(replace_neighbor(op, chars, found.value[1], found.rng))

MaxChars == 4      \* longest text given to a typo function
MaxTries == 2      \* largest max_tries given to draw_eligible_index
MaxHold == 2       \* largest min_hold of a shift-slip configuration
SlipTapeLen == 5   \* draws on the tape of a shift-slip call

SlipRates == {NaN, F64(-1, 2), F64(0, 1), F64(1, 2), F64(1, 1), F64(3, 2)}

SlipConfigs ==
    [enter_rate : SlipRates, exit_rate : SlipRates, min_hold : 0..MaxHold,
     shift_map : {[key \in {"1"} |-> <<"!">>]}]

SlipTexts == UNION {[1..n -> {"a", "1"}] : n \in 0..MaxChars}

SlipTapes == [1..SlipTapeLen -> {F64(0, 1), F64(3, 4)}]

\* One shift-slip pass over a text
ShiftSlip ==
    /\ lastCall = NoCall
    /\ \E config \in SlipConfigs, text \in SlipTexts, tape \in SlipTapes,
          fail_at \in {0, 2} :
        \E r \in {ShiftSlipConfig_apply(config, text,
                      [ScriptedRng(tape) EXCEPT !.fail_at = fail_at])} :
            lastCall' = [fn |-> "shift_slip", config |-> config, text |-> text,
                         tape |-> tape, fail_at |-> fail_at, res |-> r.res,
                         out |-> r.out, draws |-> r.rng.n, trace |-> r.trace]
    /\ UNCHANGED <<planned, pipeline, lastRun, lastApply, lastSample, bufVars, cacheVars>>

TypoChars == {"a", "s", "j", " "}

TypoTexts == UNION {[1..n -> TypoChars] : n \in 0..MaxChars}

\* A layout with a non-empty list for "a", an empty list for "s" and no entry
\* for "j".
TypoOps ==
    [layout : {[key \in {"a", "s"} |-> IF key = "a" THEN <<<<"s">>, <<"j">>>> ELSE <<>>]},
     motor_weighting : {"Uniform", "WetInk", "HastilyEdited"}]

\* One search for an eligible character
DrawEligibleIndex ==
    /\ lastCall = NoCall
    /\ \E chars \in TypoTexts, max_tries \in 0..MaxTries, seed \in OpSeeds,
          fail_at \in 0..TapeLen :
        \E r \in {draw_eligible_index(
                      [DeterministicRng_new(seed) EXCEPT !.fail_at = fail_at],
                      chars, max_tries)} :
            lastCall' = [fn |-> "draw_eligible_index", chars |-> chars,
                         max_tries |-> max_tries, seed |-> seed, fail_at |-> fail_at,
                         res |-> r.res, value |-> r.value, draws |-> r.rng.n]
    /\ UNCHANGED <<planned, pipeline, lastRun, lastApply, lastSample, bufVars, cacheVars>>

\* One insert-neighbor or replace-neighbor iteration
NeighborIteration ==
    /\ lastCall = NoCall
    /\ \E op \in TypoOps, action \in {"InsertNeighbor", "ReplaceNeighbor"},
          chars \in TypoTexts, seed \in OpSeeds, fail_at \in {0, 1, EligibleTries + 2} :
        \E r \in {neighbor_iteration(op, action, chars,
                      [DeterministicRng_new(seed) EXCEPT !.fail_at = fail_at])} :
            lastCall' = [fn |-> "neighbor_iteration", op |-> op, action |-> action,
                         chars |-> chars, seed |-> seed, fail_at |-> fail_at,
                         res |-> r.res, found |-> r.found,
                         found_draws |-> r.found_draws, after |-> r.chars,
                         draws |-> r.rng.n]
    /\ UNCHANGED <<planned, pipeline, lastRun, lastApply, lastSample, bufVars, cacheVars>>

TypoInit == PipeIdle /\ BufIdle /\ CacheIdle

\* The three functions are checked apart: each specification makes one call.
SpecSlip == TypoInit /\ [][ShiftSlip]_vars

SpecEligible == TypoInit /\ [][DrawEligibleIndex]_vars

SpecNeighbor == TypoInit /\ [][NeighborIteration]_vars

-----------------------------------------------------------------------------
(* The buffer as a state machine: a buffer is constructed from a text and   *)
(* then edited through its public mutation helpers, with arguments drawn    *)
(* from small sets that include out-of-range indices.                       *)

IdxRange == 0..(MaxLen - 1)

SegIdxRange == 0..MaxLen

ReplTexts == {<<>>, <<" ">>, <<"X">>, <<".", "a">>}

BulkTexts == {<<"X">>, <<" ">>}

BulkLists(indices) ==
    LET pairs == indices \X BulkTexts
    IN  {<<>>} \cup {<<p>> : p \in pairs} \cup {<<p, q>> : p \in pairs, q \in pairs}

Tokens == {<<>>, <<"X">>, <<"a">>}

BufInit ==
    /\ src \in Texts(MaxLen)
    /\ buf = from_str(src)
    /\ lastOp = "from_str"
    /\ lastRes = "Ok"
    /\ clean = TRUE
    /\ nEdits = 0
    /\ CacheIdle
    /\ PipeIdle

\* One edit call: the buffer it leaves and the result it returns.  A panic ends
\* the behaviour.
Edit(op, r) ==
    /\ nEdits < MaxEdits
    /\ lastRes # "Panic"
    /\ buf' = r.buf
    /\ lastRes' = r.res
    /\ lastOp' = op
    /\ clean' = (clean /\ r.res = "Ok")
    /\ nEdits' = nEdits + 1
    /\ UNCHANGED <<src, cacheVars, pipeVars>>

ReplaceWord ==
    \E i \in IdxRange, t \in ReplTexts : Edit("replace_word", replace_word(buf, i, t))

ReplaceWordsBulk ==
    \E l \in BulkLists(IdxRange) : Edit("replace_words_bulk", replace_words_bulk(buf, l))

DeleteWord ==
    \E i \in IdxRange : Edit("delete_word", delete_word(buf, i))

InsertWordAfter ==
    \E i \in IdxRange, w \in {<<>>, <<"X">>}, s \in {<<>>, <<<<>>>>, <<<<" ">>>>} :
        Edit("insert_word_after", insert_word_after(buf, i, w, s))

ReplaceCharRange ==
    \E s \in 0..MaxLen, e \in 0..(MaxLen + 1), t \in {<<>>, <<"X", " ">>} :
        Edit("replace_char_range", replace_char_range(buf, s, e, t))

Normalize == Edit("normalize", normalize(buf))

ReplaceSegment ==
    \E i \in SegIdxRange, t \in {<<>>, <<"X">>, <<"a", " ">>} :
        Edit("replace_segment", replace_segment(buf, i, t))

ReplaceSegmentsBulk ==
    \E l \in BulkLists(SegIdxRange) :
        Edit("replace_segments_bulk", replace_segments_bulk(buf, l))

MergeRepeatedCharWords ==
    \E t \in Tokens : Edit("merge_repeated_char_words", merge_repeated_char_words(buf, t))

BufNext ==
    \/ ReplaceWord
    \/ ReplaceWordsBulk
    \/ DeleteWord
    \/ InsertWordAfter
    \/ ReplaceCharRange
    \/ Normalize
    \/ ReplaceSegment
    \/ ReplaceSegmentsBulk
    \/ MergeRepeatedCharWords

SpecBuf == BufInit /\ [][BufNext]_vars

-----------------------------------------------------------------------------
(* Properties of the buffer *)

\* C8: Buffer round-trip.  For every text, the buffer constructed from it
\* materialises, before any mutation, to exactly that text.
C8_RoundTrip == nEdits = 0 => to_string(buf) = src

\* A constructed buffer whose text starts with a two-character separator
\* followed by a multi-byte word.
C8_Witness ==
    /\ nEdits = 0
    /\ src = <<" ", " ", "X">>
    /\ Len(buf.segments) = 2
    /\ buf.segments[1] = TextSegment_new(<<" ", " ">>, "Separator")

SpanInvariant(b) ==
    /\ Len(b.spans) = Len(b.segments)
    /\ \A i \in 1..Len(b.spans) :
           /\ b.spans[i].segment_index = i - 1
           /\ b.spans[i].char_range[2] - b.spans[i].char_range[1]
                  = chars_count(b.segments[i].text)
           /\ b.spans[i].byte_range[2] - b.spans[i].byte_range[1]
                  = str_len(b.segments[i].text)
           /\ b.spans[i].char_range[1]
                  = (IF i = 1 THEN 0 ELSE b.spans[i - 1].char_range[2])
           /\ b.spans[i].byte_range[1]
                  = (IF i = 1 THEN 0 ELSE b.spans[i - 1].byte_range[2])
    /\ char_len(b) = chars_count(to_string(b))

\* C9: Span invariant.  After construction and after any sequence of successful
\* edit calls there is one span per segment in segment order, each span's char
\* and byte range has the length of its segment's text, consecutive spans are
\* contiguous from 0, and char_len() is the character count of to_string().
C9_SpanInvariant == clean => SpanInvariant(buf)

\* Two successful edits that leave several segments, one of them holding a
\* multi-byte character after another segment.
C9_Witness ==
    /\ clean
    /\ nEdits = MaxEdits
    /\ lastOp = "replace_char_range"
    /\ Len(buf.segments) >= 3
    /\ \E i \in 1..Len(buf.segments) : "X" \in {buf.segments[i].text[j] :
                                                   j \in 1..Len(buf.segments[i].text)}
    /\ buf.total_bytes > buf.total_chars

\* The segment indices (0-based) of the Word-kind segments, in segment order.
WordSegmentPositions(segments) ==
    SelectSeq([i \in 1..Len(segments) |-> i - 1],
              LAMBDA p : segments[p + 1].kind = "Word")

WordIndexInvariant(b) ==
    LET positions == WordSegmentPositions(b.segments) IN
    /\ word_count(b) = Len(positions)
    /\ \A i \in 0..(word_count(b) - 1) :
           /\ positions[i + 1] < Len(b.segments)
           /\ word_segment(b, i) = <<b.segments[positions[i + 1] + 1]>>
           /\ b.word_segment_indices[i + 1] = positions[i + 1]
    /\ \A i \in 1..(word_count(b) - 1) :
           b.word_segment_indices[i] < b.word_segment_indices[i + 1]
    /\ \A i \in word_count(b)..(word_count(b) + MaxLen) : word_segment(b, i) = <<>>

\* C10: Word-index invariant.  In every reachable buffer state word_count() is
\* the number of Word segments, word_segment(i) for i < word_count() is the i-th
\* Word segment in segment order, and word_segment(i) is None from word_count() on.
C10_WordIndexInvariant == WordIndexInvariant(buf)

\* A bulk word replacement that failed part-way on a buffer of two words, one
\* of which an earlier edit had turned into whitespace.
C10_Witness ==
    /\ lastOp = "replace_words_bulk"
    /\ lastRes = "InvalidWordIndex"
    /\ word_count(buf) = 2
    /\ \E i \in 0..1 : word_segment(buf, i)[1].text = <<"X">>
    /\ \E i \in 0..1 : word_segment(buf, i)[1].text = <<" ">>

-----------------------------------------------------------------------------
(* Properties of the caches *)

\* C5: StaticCache first-writer-wins under every interleaving.  Every value a
\* completed get or get_or_insert has returned for a key is the one value the
\* map holds for that key, and a completed get_or_insert has returned a value.
C5_FirstWriterWins ==
    /\ \A p \in returned : inner[p[1]] = p[2]
    /\ \A t \in Threads :
           th[t].pc = "done" /\ th[t].op = "get_or_insert"
               => th[t].ret # None /\ th[t].ret = inner[th[t].key]

\* Two threads raced get_or_insert on one key, both got as far as the write
\* guard, and both returned the same thread's value.
C5_Witness ==
    \E t1 \in Threads, t2 \in Threads :
        /\ t1 # t2
        /\ th[t1].pc = "done" /\ th[t2].pc = "done"
        /\ th[t1].op = "get_or_insert" /\ th[t2].op = "get_or_insert"
        /\ th[t1].key = th[t2].key
        /\ th[t1].wrote /\ th[t2].wrote
        /\ th[t1].ret = t1 /\ th[t2].ret = t1

\* C6: StaticCache tolerates a writer that aborts while holding the lock.  No
\* call fails on the poisoned lock, the entries the map held at the abort stay,
\* and a call started after the abort returns the entry the map held then.
C6_PoisonTolerated ==
    /\ \A t \in Threads : th[t].pc # "failed"
    /\ \A k \in Keys : snap[k] # None => inner[k] = snap[k]
    /\ \A t \in Threads :
           th[t].pc = "done" /\ th[t].seen # None => th[t].ret = th[t].seen

\* After a writer's abort one thread's get_or_insert, started on the poisoned
\* lock for a key stored before the abort, has returned the stored entry.
C6_Witness ==
    /\ poisoned
    /\ \E a \in Threads : th[a].pc = "aborted"
    /\ \E t \in Threads :
           /\ th[t].pc = "done"
           /\ th[t].op = "get_or_insert"
           /\ th[t].seen # None
           /\ th[t].ret = th[t].seen

\* C7: the layout memoization is first-writer-wins per key, and after a thread
\* has aborted while holding the layout cache's lock no later lookup or insert
\* fails on it.
C7_LayoutCacheGuarantees ==
    /\ \A p \in returned : inner[p[1]] = p[2]
    /\ \A t \in Threads : th[t].pc # "failed"

-----------------------------------------------------------------------------
(* Seeds, order and failures of a pipeline                                   *)

\* C2: for a fixed master seed the seed planned for an item is the seed the
\* item gets in every other list that holds it with the same name, scope and
\* order, at whatever position and beside whatever other items; and every step
\* a compile keeps carries the seed planned for it, whatever the include and
\* exclude patterns removed.
C2_SeedStability ==
    /\ planned.made =>
           \A i \in 1..Len(planned.items) :
               /\ planned.plan[i][1] = i - 1
               /\ \A other \in ItemLists : \A j \in 1..Len(other) :
                      other[j] = planned.items[i]
                      => plan_glitchlings(other, planned.master_seed)[j][2]
                             = planned.plan[i][2]
    /\ pipeline.made =>
           \A k \in 1..Len(pipeline.steps) :
               \E i \in 1..Len(planned.items) :
                   /\ planned.items[i].name = pipeline.steps[k].name
                   /\ planned.plan[i][2] = pipeline.steps[k].seed

\* A plan of two different items of which the compile kept only the second.
C2_Witness ==
    /\ pipeline.made
    /\ Len(planned.items) = 2
    /\ planned.items[1].name # planned.items[2].name
    /\ Len(pipeline.steps) = 1
    /\ pipeline.steps[1].name = planned.items[2].name
    /\ pipeline.steps[1].seed = planned.plan[2][2]

\* C3: a run applies the compiled steps in their order, one after another, to
\* one buffer: the k-th step applied is the k-th compiled step, it starts from
\* the text the step before left (the run's text for the first), with a
\* generator of its own seed that has made no draw; a run that succeeds has
\* applied every step and returns the text the last one left.
C3_OrderAndFreshRng ==
    lastRun.made =>
        /\ Len(lastRun.trace) <= Len(pipeline.steps)
        /\ \A k \in 1..Len(lastRun.trace) :
               /\ lastRun.trace[k].name = pipeline.steps[k].name
               /\ lastRun.trace[k].rng0.seed = pipeline.steps[k].seed
               /\ lastRun.trace[k].rng0.n = 0
               /\ lastRun.trace[k].before =
                      IF k = 1 THEN lastRun.text ELSE lastRun.trace[k - 1].after
        /\ lastRun.res = "Ok" =>
               /\ Len(lastRun.trace) = Len(pipeline.steps)
               /\ lastRun.out = <<IF lastRun.trace = <<>> THEN lastRun.text
                                  ELSE lastRun.trace[Len(lastRun.trace)].after>>

\* A run of two steps in which the first changed the text and both drew.
C3_Witness ==
    /\ lastRun.made
    /\ lastRun.res = "Ok"
    /\ Len(lastRun.trace) = 2
    /\ lastRun.trace[1].before # lastRun.trace[1].after
    /\ lastRun.trace[1].draws >= 1
    /\ lastRun.trace[2].draws >= 1

\* In the modes a RushmoreComboOp ran, only the last may have failed, and its
\* error is the operation's result.
ModesStopAtFailure(modes, res) ==
    \A j \in 1..Len(modes) :
        modes[j].res # "Ok" => j = Len(modes) /\ res = modes[j].res

\* C4: a failure is never swallowed.  In a run, a step that failed is the last
\* step applied, and the run returns its error and no text; a run that returns
\* an error returns the error of the last step it applied.  In a
\* RushmoreComboOp, in a run or applied directly, a mode that failed is the
\* last mode applied and its error is the operation's result; a failed
\* operation returns no text.
C4_FailureNotSwallowed ==
    /\ lastRun.made =>
           /\ \A k \in 1..Len(lastRun.trace) :
                  /\ lastRun.trace[k].res # "Ok" =>
                         /\ k = Len(lastRun.trace)
                         /\ lastRun.res = lastRun.trace[k].res
                         /\ lastRun.out = <<>>
                  /\ ModesStopAtFailure(lastRun.trace[k].modes, lastRun.trace[k].res)
           /\ lastRun.res # "Ok" =>
                  /\ lastRun.trace # <<>>
                  /\ lastRun.trace[Len(lastRun.trace)].res = lastRun.res
    /\ lastApply.made =>
           /\ ModesStopAtFailure(lastApply.modes, lastApply.res)
           /\ lastApply.res # "Ok" => lastApply.out = <<>>

\* A run of a two-step pipeline whose first step failed: the second was not
\* applied and the run returned the error.
C4_Witness ==
    /\ lastRun.made
    /\ Len(pipeline.steps) = 2
    /\ Len(lastRun.trace) = 1
    /\ lastRun.trace[1].res # "Ok"
    /\ lastRun.res = lastRun.trace[1].res
    /\ lastRun.out = <<>>

-----------------------------------------------------------------------------
(* Segment kinds and the failures of the edit calls                          *)

\* The kind a segment's text calls for: Word when the text holds a character
\* that is not whitespace, Separator when it holds none.
KindMatchesText(segment) ==
    IF segment.kind = "Word" THEN ~all_whitespace(segment.text)
    ELSE all_whitespace(segment.text)

\* C11: Segment-kind invariant.  In every buffer state reached by construction
\* and edit calls, every Word segment holds a character that is not whitespace
\* and every Separator segment holds only whitespace.
C11_SegmentKindInvariant ==
    \A i \in 1..Len(buf.segments) : KindMatchesText(buf.segments[i])

\* C12: a replace_words_bulk call that failed with InvalidWordIndex leaves the
\* buffer invariants intact: the spans, char_len and the word index describe
\* the segment texts the call left.
C12_BulkFailureKeepsInvariants ==
    (nEdits = 1 /\ lastOp = "replace_words_bulk" /\ lastRes = "InvalidWordIndex")
        => SpanInvariant(buf) /\ WordIndexInvariant(buf)

\* C13: a replace_segment or replace_segments_bulk call that addresses a segment
\* index past the end does not return as a call that succeeded.
C13_InvalidSegmentIndexReported ==
    [][/\ lastOp' = "replace_segment" =>
              \A i \in SegIdxRange, t \in {<<>>, <<"X">>, <<"a", " ">>} :
                  i >= Len(buf.segments) =>
                      ~(/\ Edit("replace_segment", replace_segment(buf, i, t))
                        /\ lastRes' = "Ok")
       /\ lastOp' = "replace_segments_bulk" =>
              \A l \in BulkLists(SegIdxRange) :
                  (\E p \in 1..Len(l) : l[p][1] >= Len(buf.segments)) =>
                      ~(/\ Edit("replace_segments_bulk", replace_segments_bulk(buf, l))
                        /\ lastRes' = "Ok")]_vars

-----------------------------------------------------------------------------
(* weighted_sample_without_replacement and the rate-driven operations *)

\* C14: weighted_sample_without_replacement fails with the excessive-request
\* error whenever k exceeds the number of candidates, an empty candidate list
\* with k >= 1 included, and for k = 0 returns an empty selection without
\* making a draw.
C14_SampleRequestChecked ==
    lastSample.made =>
        /\ lastSample.k > Len(lastSample.items) => lastSample.res = "ExcessiveRedaction"
        /\ lastSample.k = 0 =>
               /\ lastSample.res = "Ok"
               /\ lastSample.picks = {}
               /\ lastSample.draws = 0

is_zero(rate) == ~rate.nan /\ rate.num = 0

\* C15: a step called with rate = 0 succeeds and leaves the buffer's text
\* identical to the input, for every text and every generator.
C15_RateZeroNoOp ==
    (lastApply.made /\ is_zero(lastApply.op.rate)) =>
        /\ lastApply.res = "Ok"
        /\ lastApply.after = lastApply.text

\* The same call with the operation's rate set to 1.
at_rate_one(a) ==
    apply_outcome([a.op EXCEPT !.rate = f_one], a.text, a.seed, a.fail_at, a.tie,
            GlitchOperation_apply([a.op EXCEPT !.rate = f_one], from_owned(a.text),
                                  [DeterministicRng_new(a.seed) EXCEPT
                                      !.fail_at = a.fail_at],
                                  a.tie))

\* C16: an out-of-range rate is clamped and never rejected: with a NaN or a
\* negative rate an apply succeeds and leaves the text unchanged, as at rate 0,
\* and with a rate above 1 it has the result, the text and the draws of the
\* same call at rate 1.
C16_RateClamped ==
    lastApply.made =>
        /\ (lastApply.op.rate.nan \/ f_lt(lastApply.op.rate, f_zero)) =>
               /\ lastApply.res = "Ok"
               /\ lastApply.after = lastApply.text
        /\ f_lt(f_one, lastApply.op.rate) =>
               /\ lastApply.res = at_rate_one(lastApply).res
               /\ lastApply.after = at_rate_one(lastApply).after
               /\ lastApply.draws = at_rate_one(lastApply).draws

\* A text with no word character has no word with a core.
has_word_char(text) == \E i \in 1..Len(text) : is_word_char(text[i])

\* C17: redaction of a buffer with no eligible word (empty text, whitespace
\* only, or only words with an empty core) fails with NoRedactableWords at
\* every rate, makes no draw and leaves the buffer unchanged; the caller gets
\* an error, not a success.
C17_NoRedactableWords ==
    (lastApply.made /\ lastApply.op.type = "Redact" /\ ~has_word_char(lastApply.text)) =>
        /\ lastApply.res = "NoRedactableWords"
        /\ lastApply.out = <<>>
        /\ lastApply.draws = 0
        /\ lastApply.after = lastApply.text

C17_Witness ==
    /\ lastApply.made
    /\ lastApply.op.type = "Redact"
    /\ lastApply.op.rate = NaN
    /\ lastApply.text = <<".", " ", ".">>
    /\ lastApply.res = "NoRedactableWords"

\* A word with its core, from the first word character to the last, replaced
\* by one replacement token per core character.
redacted_word(word, token) ==
    LET inside == {i \in 1..Len(word) : is_word_char(word[i])}
        first == CHOOSE i \in inside : \A j \in inside : i <= j
        last == CHOOSE i \in inside : \A j \in inside : j <= i
    IN  SubSeq(word, 1, first - 1) \o repeat(token, last - first + 1)
        \o SubSeq(word, last + 1, Len(word))

\* The texts in which exactly k of the words with a core are redacted and
\* every other segment is as it was.
redactions_of(segments, k, token) ==
    LET eligible == {i \in 1..Len(segments) :
                        segments[i].kind = "Word" /\ has_word_char(segments[i].text)}
    IN  {concat_texts([i \in 1..Len(segments) |->
                          IF i \in chosen
                          THEN [segments[i] EXCEPT !.text = redacted_word(@, token)]
                          ELSE segments[i]]) :
            chosen \in {s \in SUBSET eligible : Cardinality(s) = k}}

\* max(1, floor(n * rate)) for a rate that is a number
exact_k(n, rate) ==
    IF (n * rate.num) \div rate.den < 1 THEN 1 ELSE (n * rate.num) \div rate.den

\* C18: redaction is exact-k: with N candidate words and
\* k = max(1, floor(N * rate)), a successful apply without merging redacts
\* exactly k distinct candidate words whatever the draws; a redacted word keeps
\* its prefix and suffix and has one replacement token per core character, and
\* every other word and every separator is unchanged.
C18_RedactExactK ==
    (/\ lastApply.made
     /\ lastApply.op.type = "Redact"
     /\ ~lastApply.op.merge_adjacent
     /\ ~lastApply.op.rate.nan
     /\ lastApply.res = "Ok") =>
        LET segments == from_owned(lastApply.text).segments
            n == Cardinality({i \in 1..Len(segments) :
                                 segments[i].kind = "Word"
                                 /\ has_word_char(segments[i].text)})
        IN  /\ exact_k(n, lastApply.op.rate) <= n
            /\ lastApply.after \in redactions_of(segments, exact_k(n, lastApply.op.rate),
                                                 lastApply.op.replacement_char)

C18_Witness ==
    /\ lastApply.made
    /\ lastApply.op.type = "Redact"
    /\ ~lastApply.op.merge_adjacent
    /\ lastApply.op.rate = F64(1, RateDen)
    /\ lastApply.text = <<"a", " ", "a", "a", " ", "a", " ", ".", "a">>
    /\ lastApply.res = "Ok"
    /\ lastApply.after = <<"a", " ", "X", "X", " ", "a", " ", ".", "X">>

\* floor(n * rate) with the rate brought into [0, 1]
allowed_deletions(n, rate) ==
    IF rate.nan \/ rate.num <= 0 THEN 0
    ELSE IF rate.num >= rate.den THEN n
    ELSE (n * rate.num) \div rate.den

\* C19: word deletion never puts word index 0 in its delete set, and the
\* delete set never holds more than allowed = floor(candidate_count * rate)
\* words, the candidates being the words with index >= 1; this for every
\* text, rate and draw sequence.
C19_DeleteKeepsFirstAndCap ==
    (lastApply.made /\ lastApply.op.type = "Delete") =>
        LET words == word_count(from_owned(lastApply.text))
            candidate_count == IF words = 0 THEN 0 ELSE words - 1
        IN  /\ 0 \notin lastApply.delete_set
            /\ lastApply.delete_set \subseteq 1..(words - 1)
            /\ Cardinality(lastApply.delete_set)
                   <= allowed_deletions(candidate_count, lastApply.op.rate)

C19_Witness ==
    /\ lastApply.made
    /\ lastApply.op.type = "Delete"
    /\ lastApply.op.rate = F64(1, RateDen)
    /\ lastApply.text = <<"a", " ", "a", "a", " ", "a", " ", ".", "a">>
    /\ lastApply.res = "Ok"
    /\ lastApply.delete_set = {2}
    /\ lastApply.draws = 2

\* split_whitespace().count()
token_count(text) == word_count(from_owned(text))

\* contains("  ")
has_double_space(text) == \E i \in 1..(Len(text) - 1) : text[i] = " " /\ text[i + 1] = " "

in_scenario == lastApply.made /\ lastApply.text = ScenarioText /\ lastApply.op \in ScenarioOps

\* C20: for the input "One two three four five" and a deletion at rate 0.75,
\* for every draw sequence, the output has strictly fewer than 5
\* whitespace-separated tokens and no run of two spaces.
C20_ScenarioFewerTokens ==
    in_scenario =>
        /\ lastApply.res = "Ok"
        /\ token_count(lastApply.after) < 5
        /\ ~has_double_space(lastApply.after)

\* C20 as the code has it: for that input and rate, for every draw sequence,
\* the output has 5 tokens less one per word in the delete set, which holds at
\* most floor(4 * 0.75) = 3 words and none when every draw is at or above its
\* word's probability; the output has no run of two spaces.
C20_ScenarioTokens ==
    in_scenario =>
        /\ lastApply.res = "Ok"
        /\ Cardinality(lastApply.delete_set) <= 3
        /\ token_count(lastApply.after) = 5 - Cardinality(lastApply.delete_set)
        /\ lastApply.delete_set = {} => lastApply.after = ScenarioText
        /\ ~has_double_space(lastApply.after)

C20_Witness ==
    /\ in_scenario
    /\ ~lastApply.op.unweighted
    /\ lastApply.delete_set = {1, 3}
    /\ lastApply.draws = 4
    /\ token_count(lastApply.after) = 3

-----------------------------------------------------------------------------
(* Saturation at rate 1, reduplication and adjacent swaps *)

is_one(rate) == ~rate.nan /\ rate.num = rate.den

\* Every word of the text is pure core: the text has a word character and
\* nothing but word characters and whitespace.
pure_core_words(text) ==
    /\ has_word_char(text)
    /\ \A i \in 1..Len(text) : is_word_char(text[i]) \/ is_whitespace(text[i])

saturated == lastApply.made /\ is_one(lastApply.op.rate) /\ lastApply.res = "Ok"

\* Deletion at rate 1 deletes every word with index >= 1; redaction at rate 1
\* without merging redacts every candidate word.
SaturatesCandidates ==
    LET segments == from_owned(lastApply.text).segments
        words == word_count(from_owned(lastApply.text))
        n == Cardinality({i \in 1..Len(segments) :
                             segments[i].kind = "Word" /\ has_word_char(segments[i].text)})
    IN  /\ lastApply.op.type = "Delete" => lastApply.delete_set = 1..(words - 1)
        /\ (lastApply.op.type = "Redact" /\ ~lastApply.op.merge_adjacent) =>
               lastApply.after \in redactions_of(segments, n, lastApply.op.replacement_char)

merged_redaction(text, token) ==
    LET inside == {i \in 1..Len(text) : ~is_whitespace(text[i])}
        first == CHOOSE i \in inside : \A j \in inside : i <= j
        last == CHOOSE i \in inside : \A j \in inside : j <= i
    IN  SubSeq(text, 1, first - 1)
        \o repeat(token, Cardinality({i \in inside : is_word_char(text[i])}))
        \o SubSeq(text, last + 1, Len(text))

reduplicated_word(word) ==
    LET inside == {i \in 1..Len(word) : is_word_char(word[i])}
        first == CHOOSE i \in inside : \A j \in inside : i <= j
        last == CHOOSE i \in inside : \A j \in inside : j <= i
    IN  IF inside = {} THEN word \o <<" ">>
        ELSE SubSeq(word, 1, last) \o <<" ">> \o SubSeq(word, first, Len(word))

reduplicated_text(text) ==
    LET segments == from_owned(text).segments
    IN  concat_texts([i \in 1..Len(segments) |->
                         IF segments[i].kind = "Word"
                         THEN [segments[i] EXCEPT !.text = reduplicated_word(@)]
                         ELSE segments[i]])

\* C22: reduplication at a rate of 1 or more duplicates every eligible word
\* whatever the draws: a word prefix+core+suffix becomes prefix+core, one
\* space, core+suffix, and the separators are kept, so that "Hello world"
\* becomes "Hello Hello world world".
C22_ReduplicateAll ==
    (/\ lastApply.made
     /\ lastApply.op.type = "Reduplicate"
     /\ f_ge(lastApply.op.rate, f_one)
     /\ lastApply.res = "Ok") =>
        lastApply.after = reduplicated_text(lastApply.text)

C22_Witness ==
    /\ lastApply.made
    /\ lastApply.op.type = "Reduplicate"
    /\ is_one(lastApply.op.rate)
    /\ lastApply.text = <<".", "a", " ", "a", ".">>
    /\ lastApply.res = "Ok"
    /\ lastApply.after = <<".", "a", " ", "a", " ", "a", " ", "a", ".">>

\* A word's prefix, core and suffix: the core runs from its first word
\* character to its last; a word without one is all prefix.
affixes_of(word) ==
    LET inside == {i \in 1..Len(word) : is_word_char(word[i])}
        first == CHOOSE i \in inside : \A j \in inside : i <= j
        last == CHOOSE i \in inside : \A j \in inside : j <= i
    IN  IF inside = {} THEN [prefix |-> word, core |-> <<>>, suffix |-> <<>>]
        ELSE [prefix |-> SubSeq(word, 1, first - 1), core |-> SubSeq(word, first, last),
              suffix |-> SubSeq(word, last + 1, Len(word))]

\* The words of a buffer, in order.
words_of(b) == [w \in 1..word_count(b) |-> b.segments[b.word_segment_indices[w] + 1].text]

\* Word w (1-based) after the pairs in swapped, each named by its left word,
\* have exchanged cores.
swapped_word(words, swapped, w) ==
    LET mine == affixes_of(words[w])
    IN  IF w \in swapped THEN mine.prefix \o affixes_of(words[w + 1]).core \o mine.suffix
        ELSE IF w - 1 \in swapped
        THEN mine.prefix \o affixes_of(words[w - 1]).core \o mine.suffix
        ELSE words[w]

\* The left words of the disjoint pairs (1,2), (3,4), ... (1-based) whose two
\* words both have a core.
swappable_pairs(words) ==
    {w \in 1..(Len(words) - 1) :
        /\ w % 2 = 1
        /\ has_word_char(words[w])
        /\ has_word_char(words[w + 1])}

separators_of(b) ==
    SelectSeq(b.segments, LAMBDA segment : segment.kind = "Separator")

\* C25: adjacent swap acts on the disjoint word pairs (0,1), (2,3), ...: at a
\* rate of 1 or more every pair whose two words have a core exchanges cores,
\* each position keeping its own prefix and suffix; at any rate only such pairs
\* are swapped, so no word takes part in two swaps and an unpaired last word
\* stays, and the word count and every separator are unchanged.
C25_SwapDisjointPairs ==
    (lastApply.made /\ lastApply.op.type = "SwapAdjacent") =>
        LET before == from_owned(lastApply.text)
            now == from_owned(lastApply.after)
            words == words_of(before)
        IN  /\ word_count(now) = word_count(before)
            /\ separators_of(now) = separators_of(before)
            /\ \E swapped \in SUBSET swappable_pairs(words) :
                   /\ words_of(now) = [w \in 1..Len(words) |->
                                          swapped_word(words, swapped, w)]
                   /\ (f_ge(lastApply.op.rate, f_one) /\ lastApply.res = "Ok") =>
                          swapped = swappable_pairs(words)

C25_Witness ==
    /\ lastApply.made
    /\ lastApply.op.type = "SwapAdjacent"
    /\ lastApply.op.rate = F64(1, RateDen)
    /\ lastApply.text = <<"a", " ", "a", "a", " ", "a", " ", ".", "a">>
    /\ lastApply.res = "Ok"
    /\ lastApply.after = <<"a", "a", " ", "a", " ", "a", " ", ".", "a">>
    /\ lastApply.draws = 2

-----------------------------------------------------------------------------
(* replace_char_range and merge_repeated_char_words *)

CharRangeTexts == {<<>>, <<"X", " ">>}

\* What a replace_char_range(start..end, replacement) call must leave behind.
char_range_outcome(start, end, replacement) ==
    IF start > end \/ end > buf.total_chars
    THEN /\ lastRes' = "InvalidCharRange"
         /\ buf' = buf
    ELSE /\ lastRes' = "Ok"
         /\ to_string(buf') = SubSeq(to_string(buf), 1, start) \o replacement
                              \o SubSeq(to_string(buf), end + 1, Len(to_string(buf)))
         /\ IF start = end /\ replacement = <<>> THEN buf' = buf
            ELSE SpanInvariant(buf') /\ WordIndexInvariant(buf')

\* C24: replace_char_range with start > end or end > char_len() returns
\* InvalidCharRange and leaves segments, spans and word index unchanged; with a
\* valid range it replaces exactly those characters and re-tokenizes, and an
\* empty range with an empty replacement changes nothing.
C24_ReplaceCharRange ==
    [][\A s \in 0..MaxLen, e \in 0..(MaxLen + 1), t \in CharRangeTexts :
           Edit("replace_char_range", replace_char_range(buf, s, e, t)) =>
               char_range_outcome(s, e, t)]_vars

\* A Word made of one or more repetitions of the token, and how many.
token_word(segment, token) ==
    /\ segment.kind = "Word"
    /\ \E n \in 1..Len(segment.text) : segment.text = repeat(token, n)

repetitions(segment, token) ==
    CHOOSE n \in 1..Len(segment.text) : segment.text = repeat(token, n)

\* Segment i (1-based) is a token word joined to the token word at i + 2 by
\* the single Separator at i + 1.
joined(segments, i, token) ==
    /\ i + 2 <= Len(segments)
    /\ token_word(segments[i], token)
    /\ segments[i + 1].kind = "Separator"
    /\ token_word(segments[i + 2], token)

\* The repetitions in the run that starts at segment i.
RECURSIVE run_repetitions(_, _, _)
run_repetitions(segments, i, token) ==
    repetitions(segments[i], token)
    + (IF joined(segments, i, token) THEN run_repetitions(segments, i + 2, token) ELSE 0)

\* Segment i lies inside a run, after the run's first word.
absorbed(segments, i, token) ==
    \/ i > 2 /\ joined(segments, i - 2, token)
    \/ i > 1 /\ joined(segments, i - 1, token)

\* The segments with every maximal run replaced by one Word.
merged_runs(segments, token) ==
    LET kept[i \in 0..Len(segments)] ==
            IF i = 0 THEN <<>>
            ELSE IF absorbed(segments, i, token) THEN kept[i - 1]
            ELSE IF token_word(segments[i], token)
            THEN Append(kept[i - 1],
                        [kind |-> "Word",
                         text |-> repeat(token, run_repetitions(segments, i, token))])
            ELSE Append(kept[i - 1], segments[i])
    IN  kept[Len(segments)]

merge_outcome(token) ==
    /\ lastRes' = "Ok"
    /\ IF token = <<>> \/ buf.segments = <<>> THEN buf' = buf
       ELSE /\ buf'.segments = merged_runs(buf.segments, token)
            /\ SpanInvariant(buf')
            /\ WordIndexInvariant(buf')
    /\ merge_repeated_char_words(buf', token).buf = buf'

\* C30: merge_repeated_char_words(token) replaces every maximal run of Word
\* segments that consist entirely of repetitions of the token and are joined
\* pairwise by a single Separator with one Word of the token repeated the sum
\* of the run's repetition counts, dropping the separators inside the run;
\* every other segment keeps its text, kind and order; an empty token or an
\* empty buffer is a no-op; and a second application changes nothing.
C30_MergeRuns ==
    [][\A t \in Tokens :
           Edit("merge_repeated_char_words", merge_repeated_char_words(buf, t)) =>
               merge_outcome(t)]_vars

C30_Witness ==
    /\ lastOp = "merge_repeated_char_words"
    /\ nEdits = 1
    /\ src = <<"X", " ", "X">>
    /\ buf.segments = <<[kind |-> "Word", text |-> <<"X", "X">>]>>

-----------------------------------------------------------------------------
(* Descriptor configuration *)

\* The build failed with an error whose message holds the value.
reported(value) == lastCall.res = "Err" /\ lastCall.value = value

\* C23: every unknown configuration string is reported and none is silently
\* defaulted: an unknown step kind, an unknown Rushmore mode, an unknown
\* homophone weighting and an unknown motor_weighting of the typo step each
\* make the descriptor's construction fail with an error whose message
\* contains the offending value.
C23_UnknownStringsReported ==
    lastCall.fn = "build_operation" =>
        LET dict == lastCall.dict
            known_types == {"reduplicate", "delete", "swap_adjacent", "rushmore_combo",
                            "typo", "wherewolf"}
            bad_modes == {dict.modes[i] : i \in 1..Len(dict.modes)}
                         \ {"delete", "duplicate", "swap"}
        IN  /\ dict.type \notin known_types => reported(dict.type)
            /\ (dict.type = "rushmore_combo" /\ bad_modes # {}) =>
                   \E mode \in bad_modes : reported(mode)
            /\ (dict.type = "wherewolf" /\ dict.weighting \notin {<<>>, <<"flat">>}) =>
                   reported(dict.weighting[1])
            /\ (dict.type = "typo" /\ dict.motor_weighting = <<"bogus">>) =>
                   reported("bogus")

-----------------------------------------------------------------------------
(* Shift-slip *)

\* The shifted form of a character of SlipTexts.
shifted_char(ch) == IF ch = "1" THEN "!" ELSE "A"

\* The characters at which the last shift-slip call entered the shifted
\* state, the first one included when the call started shifted.
slip_entries ==
    {i \in 1..Len(lastCall.trace) :
        \/ lastCall.trace[i].entered
        \/ i = 1 /\ f_ge(lastCall.config.enter_rate, f_one)}

\* C26: once the machine enters the shifted state at character i, or starts
\* shifted because enter_rate >= 1, the min_hold characters from i on (as
\* many as the input has) are emitted shifted, and while the hold counter is
\* positive no exit draw is made and no exit takes effect, whatever exit_rate
\* is.
C26_ShiftSlipMinHold ==
    lastCall.fn = "shift_slip" =>
        LET trace == lastCall.trace
        IN  /\ \A i \in slip_entries :
                \A j \in i..(i + lastCall.config.min_hold - 1) :
                    j <= Len(trace) =>
                        /\ trace[j].held /\ ~trace[j].exit_draw /\ ~trace[j].exited
                        /\ lastCall.res = "Ok" =>
                               lastCall.out[j] = shifted_char(lastCall.text[j])
            /\ \A j \in 1..Len(trace) :
                trace[j].guaranteed > 0 => ~trace[j].exit_draw /\ ~trace[j].exited

\* A hold of two characters entered at the first one, with an exit rate of 1:
\* the exit waits for the third character.
C26_Witness ==
    /\ lastCall.fn = "shift_slip"
    /\ lastCall.config.min_hold = 2
    /\ lastCall.config.exit_rate = F64(1, 1)
    /\ lastCall.config.enter_rate = F64(1, 2)
    /\ lastCall.text = <<"a", "1", "a", "a">>
    /\ lastCall.out = <<"A", "!", "A", "a">>
    /\ lastCall.draws = 1

\* C27: after the machine has left the shifted state, every later character
\* of the input gets an entry draw again (when 0 < enter_rate < 1), so the
\* machine can be entered again within that input.
C27_ShiftSlipReenters ==
    (/\ lastCall.fn = "shift_slip"
     /\ f_lt(f_zero, lastCall.config.enter_rate)
     /\ f_lt(lastCall.config.enter_rate, f_one)) =>
        \A k \in 1..Len(lastCall.trace), j \in 1..Len(lastCall.trace) :
            (k < j /\ lastCall.trace[k].exited) => lastCall.trace[j].entry_draw

\* What the loop does instead: after the machine has left the shifted state
\* no later character of that input gets an entry draw and every later
\* character is emitted unshifted, so an input holds at most one shifted run.
ShiftSlipOneRun ==
    lastCall.fn = "shift_slip" =>
        \A k \in 1..Len(lastCall.trace), j \in 1..Len(lastCall.trace) :
            (k < j /\ lastCall.trace[k].exited) =>
                /\ ~lastCall.trace[j].entry_draw
                /\ ~lastCall.trace[j].held
                /\ lastCall.res = "Ok" => lastCall.out[j] = lastCall.text[j]

-----------------------------------------------------------------------------
(* The search for an eligible character *)

\* An index (from 0) that is interior, holds a word character and has word
\* characters on both sides.
interior_word(chars, i) ==
    /\ 0 < i /\ i < Len(chars) - 1
    /\ \A k \in i..(i + 2) : chars[k] \in {"a", "s", "j"}

\* C29: draw_eligible_index returns Some(i) only for an eligible index i,
\* returns None only when no index of the sequence is eligible, makes no
\* draw on an empty sequence and at most max_tries + 1 draws otherwise; it
\* fails only when a draw fails.
C29_DrawEligibleIndex ==
    lastCall.fn = "draw_eligible_index" =>
        LET chars == lastCall.chars
            eligible == {i \in 0..(Len(chars) - 1) : interior_word(chars, i)}
        IN  /\ lastCall.res \in {"Ok", "Rng"}
            /\ chars = <<>> => lastCall.res = "Ok" /\ lastCall.value = <<>> /\ lastCall.draws = 0
            /\ lastCall.draws <= lastCall.max_tries + 1
            /\ lastCall.res = "Rng" => lastCall.fail_at = lastCall.draws
            /\ lastCall.res = "Ok" =>
                   IF lastCall.value = <<>> THEN eligible = {}
                   ELSE Len(lastCall.value) = 1 /\ lastCall.value[1] \in eligible

\* The probes and the last draw all miss and the scan wraps round to the only
\* eligible index.
C29_Witness ==
    /\ lastCall.fn = "draw_eligible_index"
    /\ lastCall.chars = <<"a", "a", "a", " ">>
    /\ lastCall.max_tries = 2
    /\ lastCall.seed = NSeeds - 1
    /\ lastCall.res = "Ok"
    /\ lastCall.value = <<1>>
    /\ lastCall.draws = 3

-----------------------------------------------------------------------------
(* The neighbor actions *)

\* C28: in an insert-neighbor or replace-neighbor iteration for which an
\* eligible index was found, exactly one RNG call is made for the neighbor
\* choice, whether the character has a non-empty neighbor list, an empty one
\* or no entry in the layout, and whatever the motor weighting is.
C28_NeighborOneDraw ==
    (lastCall.fn = "neighbor_iteration" /\ lastCall.found # <<>>) =>
        lastCall.draws = lastCall.found_draws + 1

====
